---- MODULE Spec2Model ----
(***************************************************************************)
(* A model of the two command-line pipelines of the repository:            *)
(*   Pipeline A  dependency_evaluator.py  (DependencyEvaluator, main)      *)
(*   Pipeline B  workflow_analyzer.py     (analyze_sessions)               *)
(* Text is modelled as a sequence of one-character strings wherever the    *)
(* code inspects its characters (URLs, prompt contents); every other       *)
(* string is an atomic TLA+ string.  A Python mapping is a function whose  *)
(* domain is the set of keys present.                                      *)
(***************************************************************************)
EXTENDS Naturals, Sequences, FiniteSets, TLC

VARIABLES
    \* ---- Pipeline A: one run of main() or of evaluate() ----
    pc,                 \* position in main()/evaluate()
    entry,              \* "none" | "main" (command line) | "api" (evaluate() called directly)
    args_ecosystem,     \* args.ecosystem as typed on the command line; "none" outside main()
    ecosystem,          \* self.ecosystem
    errors,             \* self.errors
    warnings,           \* self.warnings
    data,               \* the local `data` mapping of the gather_* routine in progress
    registry_data,      \* result['registry_data']
    github_data,        \* result['github_data']
    security_data,      \* result['security_data']
    dependency_footprint, \* result['dependency_footprint']
    gh_repo,            \* (owner, repo) resolved by gather_github_data
    raised,             \* an exception left the routine in progress
    printed,            \* main() printed the JSON document
    exit_status,        \* the status the process ended with, once pc = "exited"
    calls,              \* the external calls made so far, in order
    faults,             \* how many of them failed (history, bounded by MaxFaults)
    last                \* the run_command / fetch_url call that returned and is being handled

VARIABLES
    \* ---- extract_github_repo applied to the spellings of one repository ----
    u_owner,            \* the owner segment
    u_name,             \* the name segment (without any ".git" suffix)
    u_res,              \* URL form -> what extract_github_repo returned for it
    u_back              \* URL form -> what it returned for the canonical URL of u_res[form]

VARIABLES
    \* ---- Pipeline B: one call of analyze_sessions ----
    b_pc,               \* "loop" between files | "reading" inside one | "done"
    n_files,            \* entries of session_files taken so far
    cur_file,           \* project_name and session_id of the file being read
    prompts,            \* the local `prompts` list of the file being read
    all_prompts,        \* all_prompts
    sessions_data,      \* sessions_data
    n_lines,            \* lines of the current file read so far
    cur_class,          \* whether the line read last meets the claimed criterion
    summary,            \* the returned summary
    project_activity,   \* the returned project_activity, in key insertion order
    patterns,           \* the returned patterns
    report,             \* what generate_report returned
    report_printed,     \* main() has printed the report
    \* history kept for the properties, not read by the code
    b_file,             \* how the current/last file went
    b_mark,             \* len(all_prompts) when the current/last file was started
    b_mark_s,           \* len(sessions_data) when the current/last file was started
    b_expect,           \* the qualifying contents among the lines read of that file
    b_yield,            \* the projects of the files that held a qualifying line, in file order
    c_all_prompts,      \* all_prompts of the same run without the paths that failed
    c_sessions_data     \* sessions_data of the same run without the paths that failed

varsA == <<pc, entry, args_ecosystem, ecosystem, errors, warnings, data, registry_data, github_data,
           security_data, dependency_footprint, gh_repo, raised, printed,
           exit_status, calls, faults, last>>
varsB == <<b_pc, n_files, cur_file, prompts, all_prompts, sessions_data, n_lines,
           cur_class, summary, project_activity, patterns, report, report_printed,
           b_file, b_mark, b_mark_s, b_expect, b_yield, c_all_prompts, c_sessions_data>>
tailB == <<patterns, report, report_printed>>
varsU == <<u_owner, u_name, u_res, u_back>>
vars == <<varsA, varsU, varsB>>

----------------------------------------------------------------------------
(* Values of loosely typed JSON fields: a tag and, for text, its characters *)

Val(t) == [t |-> t, s |-> << >>]
Str(s) == [t |-> "str", s |-> s]
NullV == Val("null")
NumV == Val("num")
ListV == Val("list")
DictV == Val("dict")
EmptyStr == Str(<< >>)
Text == Str(<<"x">>)

EmptyList == Val("emptylist")

\* Python truthiness of a value
Truthy(v) == IF v.t = "str" THEN v.s # << >> ELSE v.t \notin {"null", "emptylist"}

EmptyMap == << >>
\* d[k] = v
Put(d, k, v) == (k :> v) @@ d
\* d.get(k, default)
Get(d, k, default) == IF k \in DOMAIN d THEN d[k] ELSE default

\* an entry of self.errors / self.warnings: the message and what it names
Msg(kind, what) == [kind |-> kind, what |-> what, url |-> << >>]
MsgUrl(kind, u) == [kind |-> kind, what |-> "url", url |-> u]

----------------------------------------------------------------------------
(* run_command and fetch_url                                               *)

CmdOutcomes == {"exit0", "nonzero", "timeout", "notfound", "exception"}
FetchOutcomes == {"ok", "http404", "http403", "http500", "urlerror", "badjson", "exception"}

\* the value fetch_url returns on failure, and the stdout of a command that never ran
NoneDoc == [top |-> "none"]
NoOutput == [top |-> "empty"]

\* a run_command that also warns when the process exits non-zero
RunCommand_WarnOnNonZero(cmd, oc, out) ==
    IF oc = "exit0"
    THEN [raise |-> FALSE, success |-> TRUE, stdout |-> out, stderr |-> "captured", warn |-> << >>]
    ELSE [raise |-> FALSE, success |-> FALSE, stdout |-> NoOutput, stderr |-> "str(e)",
          warn |-> <<Msg("Command failed", cmd)>>]

\* run_command(cmd): `oc` is what subprocess.run did, `out` the captured stdout
RunCommand(cmd, oc, out) ==
    CASE oc = "exit0" ->
            [raise |-> FALSE, success |-> TRUE, stdout |-> out, stderr |-> "captured", warn |-> << >>]
      [] oc = "nonzero" ->
            [raise |-> FALSE, success |-> FALSE, stdout |-> out, stderr |-> "captured", warn |-> << >>]
      [] oc = "timeout" ->
            [raise |-> FALSE, success |-> FALSE, stdout |-> NoOutput, stderr |-> "Timeout after 30s",
             warn |-> <<Msg("Command timed out", cmd)>>]
      [] oc = "notfound" ->
            [raise |-> FALSE, success |-> FALSE, stdout |-> NoOutput, stderr |-> "Command not found",
             warn |-> <<Msg("Command not found", cmd)>>]
      [] OTHER ->
            [raise |-> FALSE, success |-> FALSE, stdout |-> NoOutput, stderr |-> "str(e)",
             warn |-> <<Msg("Command failed", cmd)>>]

\* a fetch_url that files every HTTP error under errors
FetchUrl_HttpErrorsAsErrors(url, oc, body) ==
    CASE oc = "ok" ->
            [raise |-> FALSE, ret |-> body, errs |-> << >>, warns |-> << >>]
      [] oc \in {"http404", "http403", "http500"} ->
            [raise |-> FALSE, ret |-> NoneDoc, errs |-> <<Msg("Resource not found", url)>>, warns |-> << >>]
      [] OTHER ->
            [raise |-> FALSE, ret |-> NoneDoc, errs |-> << >>, warns |-> <<Msg("Error fetching", url)>>]

\* fetch_url(url): `oc` is what urlopen/json.loads did, `body` the parsed JSON
FetchUrl(url, oc, body) ==
    CASE oc = "ok" ->
            [raise |-> FALSE, ret |-> body, errs |-> << >>, warns |-> << >>]
      [] oc = "http404" ->
            [raise |-> FALSE, ret |-> NoneDoc, errs |-> <<Msg("Resource not found", url)>>, warns |-> << >>]
      [] oc = "http403" ->
            [raise |-> FALSE, ret |-> NoneDoc, errs |-> << >>,
             warns |-> <<Msg("Access forbidden (rate limit?)", url)>>]
      [] oc = "http500" ->
            [raise |-> FALSE, ret |-> NoneDoc, errs |-> << >>, warns |-> <<Msg("HTTP error fetching", url)>>]
      [] oc = "urlerror" ->
            [raise |-> FALSE, ret |-> NoneDoc, errs |-> << >>, warns |-> <<Msg("Network error fetching", url)>>]
      [] oc = "badjson" ->
            [raise |-> FALSE, ret |-> NoneDoc, errs |-> << >>, warns |-> <<Msg("Invalid JSON from", url)>>]
      [] OTHER ->
            [raise |-> FALSE, ret |-> NoneDoc, errs |-> << >>, warns |-> <<Msg("Error fetching", url)>>]

\* Shapes of a JSON text: "obj" a non-empty object, "emptyobj" {}, "list" a
\* non-empty list, "str" a non-empty string, "num" a non-zero number; a captured
\* stdout may also be "empty" (no text) or "garbage" (text json.loads rejects)
JsonTops == {"obj", "emptyobj", "list", "emptylist", "str", "num", "null"}
StdoutTops == JsonTops \cup {"empty", "garbage"}

\* `if stdout:` on the captured text
StdoutNonEmpty(doc) == doc.top # "empty"
\* `if value:` on a parsed JSON document (or on the None fetch_url returns)
DocTruthy(doc) == doc.top \in {"obj", "list", "str", "num"}
\* json.loads raises JSONDecodeError on the text
Unparsable(doc) == doc.top = "garbage"
\* the parsed document is a mapping (has .get / .keys)
IsObj(doc) == doc.top \in {"obj", "emptyobj"}
\* the shape of field f of a parsed object ("missing" when the key is absent)
Field(doc, f) == IF doc.top = "obj" THEN doc[f] ELSE "missing"

----------------------------------------------------------------------------
(* Text helpers                                                            *)

\* p occurs in s at position i
MatchAt(p, s, i) ==
    /\ i + Len(p) - 1 <= Len(s)
    /\ \A k \in 1..Len(p) : s[i + k - 1] = p[k]

\* `p in s`
Contains(p, s) == \E i \in 1..(Len(s) + 1) : MatchAt(p, s, i)

\* s.startswith(p)
StartsWith(s, p) == MatchAt(p, s, 1)

\* the end (exclusive) of the longest run of characters outside `stop` from i
RECURSIVE RunEnd(_, _, _)
RunEnd(s, i, stop) ==
    IF i > Len(s) \/ s[i] \in stop THEN i ELSE RunEnd(s, i + 1, stop)

\* s.replace(p, ''): every non-overlapping occurrence of p, left to right
RECURSIVE RemoveAll(_, _, _)
RemoveAll(s, p, i) ==
    IF i > Len(s) THEN << >>
    ELSE IF MatchAt(p, s, i) THEN RemoveAll(s, p, i + Len(p))
    ELSE <<s[i]>> \o RemoveAll(s, p, i + 1)

GithubCom == <<"g","i","t","h","u","b",".","c","o","m">>
DotGit == <<".","g","i","t">>

----------------------------------------------------------------------------
(* extract_github_repo                                                     *)

NoRepo == [found |-> FALSE, owner |-> << >>, repo |-> << >>]

\* re.search(r'github\.com<sep>([^/]+)/([^/\.]+)', s) tried at position i, where
\* <sep> is one character of `seps`.  [^/]+ is greedy and must be followed by
\* "/", so the owner is the whole run of non-"/" characters; the repository is
\* the longest run of characters that are neither "/" nor ".".
PatternAt(s, i, seps) ==
    LET a == i + Len(GithubCom) + 1
        b == RunEnd(s, a, {"/"})
        c == RunEnd(s, b + 1, {"/", "."})
    IN  IF /\ MatchAt(GithubCom, s, i)
           /\ i + Len(GithubCom) <= Len(s)
           /\ s[i + Len(GithubCom)] \in seps
           /\ b > a
           /\ b <= Len(s)
           /\ c > b + 1
        THEN [found |-> TRUE, owner |-> SubSeq(s, a, b - 1), repo |-> SubSeq(s, b + 1, c - 1)]
        ELSE NoRepo

\* re.search: the match at the leftmost position that has one
PatternSearch(s, seps) ==
    LET hits == {i \in 1..Len(s) : PatternAt(s, i, seps).found}
    IN  IF hits = {} THEN NoRepo
        ELSE PatternAt(s, CHOOSE i \in hits : \A j \in hits : i <= j, seps)

\* a first pattern that accepts only "/" after the host
Pattern1_SlashOnly(s) == PatternSearch(s, {"/"})

\* the two patterns of the `patterns` list
Pattern1(s) == PatternSearch(s, {":", "/"})
Pattern2(s) == PatternSearch(s, {"/"})

\* repo = repo.replace('.git', '')
StripGit(m) == [m EXCEPT !.repo = RemoveAll(m.repo, DotGit, 1)]

ExtractGithubRepo(repo_url) ==
    IF repo_url = << >> THEN NoRepo
    ELSE IF Pattern1(repo_url).found THEN StripGit(Pattern1(repo_url))
    ELSE IF Pattern2(repo_url).found THEN StripGit(Pattern2(repo_url))
    ELSE NoRepo

----------------------------------------------------------------------------
(* The spellings of a repository URL, and extract_github_repo applied to them *)

Owners == {<<"l","o","d","a","s","h">>, <<"s","o","c","k","e","t","i","o">>, <<"o">>}
Names == {<<"l","o","d","a","s","h">>,
          <<"s","o","c","k","e","t",".","i","o">>,
          <<"x",".","g","i","t","h","u","b">>,
          <<".","g","i","t","h","u","b">>,
          <<"n">>}

HttpsPrefix == <<"h","t","t","p","s",":","/","/">>
GitHttpsPrefix == <<"g","i","t","+","h","t","t","p","s",":","/","/">>
SshPrefix == <<"g","i","t","@">>
OtherHost == <<"e","x","a","m","p","l","e",".","c","o","m">>

\* the spellings of github.com/{owner}/{name} and github.com:{owner}/{name}
GithubForms == {"https", "https_git", "git_https", "git_https_git", "ssh", "ssh_git"}
\* URLs that are empty or have no github.com followed by an owner and a name
ForeignForms == {"empty", "other_host", "no_name", "no_owner"}
Forms == GithubForms \cup ForeignForms
\* the order in which the spellings are tried
FormOrder == <<"https", "https_git", "git_https", "git_https_git", "ssh", "ssh_git",
               "empty", "other_host", "no_name", "no_owner">>

BuildUrl(form, o, n) ==
    CASE form = "https" -> HttpsPrefix \o GithubCom \o <<"/">> \o o \o <<"/">> \o n
      [] form = "https_git" -> HttpsPrefix \o GithubCom \o <<"/">> \o o \o <<"/">> \o n \o DotGit
      [] form = "git_https" -> GitHttpsPrefix \o GithubCom \o <<"/">> \o o \o <<"/">> \o n
      [] form = "git_https_git" ->
            GitHttpsPrefix \o GithubCom \o <<"/">> \o o \o <<"/">> \o n \o DotGit
      [] form = "ssh" -> SshPrefix \o GithubCom \o <<":">> \o o \o <<"/">> \o n
      [] form = "ssh_git" -> SshPrefix \o GithubCom \o <<":">> \o o \o <<"/">> \o n \o DotGit
      [] form = "empty" -> << >>
      [] form = "other_host" -> HttpsPrefix \o OtherHost \o <<"/">> \o o \o <<"/">> \o n
      [] form = "no_name" -> HttpsPrefix \o GithubCom \o <<"/">> \o o
      [] OTHER -> HttpsPrefix \o GithubCom \o <<"/">>

\* f"https://github.com/{owner}/{repo}"
CanonicalUrl(m) == HttpsPrefix \o GithubCom \o <<"/">> \o m.owner \o <<"/">> \o m.repo

InitU ==
    /\ u_owner \in Owners
    /\ u_name \in Names
    /\ u_res = EmptyMap
    /\ u_back = EmptyMap

IdleU ==
    /\ u_owner = << >>
    /\ u_name = << >>
    /\ u_res = EmptyMap
    /\ u_back = EmptyMap

\* extract_github_repo(url) for one spelling of the repository
Extract(form) ==
    /\ UNCHANGED <<varsA, varsB>>
    /\ Cardinality(DOMAIN u_res) < Len(FormOrder)
    /\ form = FormOrder[Cardinality(DOMAIN u_res) + 1]
    /\ u_res' = Put(u_res, form, ExtractGithubRepo(BuildUrl(form, u_owner, u_name)))
    /\ UNCHANGED <<u_owner, u_name, u_back>>

\* extract_github_repo of the canonical URL built from an earlier result
FeedBack(form) ==
    /\ UNCHANGED <<varsA, varsB>>
    /\ form \in DOMAIN u_res
    /\ form \notin DOMAIN u_back
    /\ u_res[form].found
    /\ u_back' = Put(u_back, form, ExtractGithubRepo(CanonicalUrl(u_res[form])))
    /\ UNCHANGED <<u_owner, u_name, u_res>>

----------------------------------------------------------------------------
(* Pipeline B: analyze_sessions                                            *)

MaxFiles == 2
MaxLines == 2
\* qualifying prompts in all the files of one run
MaxPrompts == 1
MinContentLen == 20

Projects == {"projA", "projB"}
SessionIds == {"s1", "s2"}

\* message contents
Prompt21 == <<"p","l","e","a","s","e"," ","c","o","m","m","i","t"," ","t","h","e"," ","f","i","x">>
PromptMixed == <<"R","u","n"," ","T","e","s","t","s",","," ","F","i","x"," ","e","r","r","o","r","s","!">>
Prompt20 == <<"p","l","e","a","s","e"," ","c","o","m","m","i","t"," ","a"," ","f","i","x","!">>
CommandTag == <<"<","c","o","m","m","a","n","d","-","n","a","m","e",">","/","c","l","e","a","r","<","/","c","o","m","m","a","n","d","-","n","a","m","e",">">>
LocalCommandTag == <<"<","l","o","c","a","l","-","c","o","m","m","a","n","d","-","s","t","d","o","u","t",">","o","k","<","/","l","o","c","a","l","-","c","o","m","m","a","n","d","-","s","t","d","o","u","t",">">>
ShortText == <<"y","e","s">>
CommandPrefix == <<"<","c","o","m","m","a","n","d">>
LocalCommandPrefix == <<"<","l","o","c","a","l","-","c","o","m","m","a","n","d">>

Contents ==
    {Str(Prompt21), Str(PromptMixed), Str(Prompt20), Str(CommandTag), Str(LocalCommandTag),
     Str(ShortText), ListV, NullV, Val("missing")}

\* one line of a session file: text json.loads rejects ("garbage", or "blank"
\* once stripped), JSON that is no object ("nonobj": a number, list, string or
\* null), or an object with these fields
Line(kind, type, message, role, isMeta, content) ==
    [kind |-> kind, type |-> type, message |-> message, role |-> role,
     isMeta |-> isMeta, content |-> content]

BaseLine == Line("obj", "user", "dict", "user", "missing", Str(Prompt21))

Lines ==
    {Line(k, "missing", "missing", "missing", "missing", Val("missing")) :
        k \in {"garbage", "blank", "nonobj"}}
    \cup {Line("obj", t, m, r, i, Str(Prompt21)) :
            t \in {"user", "assistant", "missing"},
            m \in {"dict", "missing", "null", "str"},
            r \in {"user", "assistant", "missing"},
            i \in {"missing", "false", "true"}}
    \cup {Line("obj", "user", "dict", "user", i, c) : i \in {"missing", "true"}, c \in Contents}

UpperCase == <<"A","B","C","D","E","F","G","H","I","J","K","L","M","N","O","P","Q","R","S","T","U","V","W","X","Y","Z">>
LowerCase == <<"a","b","c","d","e","f","g","h","i","j","k","l","m","n","o","p","q","r","s","t","u","v","w","x","y","z">>
\* the lower-case letter of each upper-case one
LowerOf == [c \in {UpperCase[k] : k \in 1..26} |->
               LowerCase[CHOOSE k \in 1..26 : UpperCase[k] = c]]
LowerChar(c) == IF c \in DOMAIN LowerOf THEN LowerOf[c] ELSE c
\* content.lower()
Lower(s) == [k \in 1..Len(s) |-> LowerChar(s[k])]

\* a threshold test that lets 20 characters through
LongEnough_AtLeast(s) == Len(s) >= MinContentLen

\* len(content) > 20
LongEnough(s) == Len(s) > MinContentLen

\* the body of the `for line in f` loop: "append" the content, "skip" the line
\* (nothing appended, or JSONDecodeError/KeyError caught), or "raise" (an
\* exception the inner try does not catch)
ProcessLine(line) ==
    IF line.kind \in {"garbage", "blank"} THEN "skip"
    ELSE IF line.kind = "nonobj" THEN "raise"
    ELSE IF line.type # "user" THEN "skip"
    ELSE IF line.message \in {"null", "str"} THEN "raise"
    ELSE IF ~(line.message = "dict" /\ line.role = "user" /\ line.isMeta # "true") THEN "skip"
    ELSE IF line.message = "dict" /\ line.content.t = "str"
            /\ ~StartsWith(line.content.s, CommandPrefix)
            /\ ~StartsWith(line.content.s, LocalCommandPrefix)
            /\ LongEnough(line.content.s)
         THEN "append"
         ELSE "skip"

NoFile == [project |-> "", session |-> ""]
NoSummary ==
    [total_sessions_analyzed |-> 0, sessions_with_user_prompts |-> 0, total_user_prompts |-> 0,
     ready |-> FALSE]

\* project_activity[project] = project_activity.get(project, 0) + 1, over the
\* sessions in order; the mapping is kept as its (key, count) pairs in insertion order
RECURSIVE Tally(_, _)
Tally(acc, rest) ==
    IF rest = << >> THEN acc
    ELSE LET p == Head(rest).project
             at == {k \in 1..Len(acc) : acc[k].project = p}
         IN  IF at = {}
             THEN Tally(Append(acc, [project |-> p, count |-> 1]), Tail(rest))
             ELSE Tally([k \in 1..Len(acc) |->
                            IF k \in at THEN [acc[k] EXCEPT !.count = @ + 1] ELSE acc[k]],
                        Tail(rest))

----------------------------------------------------------------------------
(* Pipeline B: pattern detection over sessions_data                        *)

\* the keywords looked for
Kw ==
    [commit |-> <<"c","o","m","m","i","t">>,
     committed |-> <<"c","o","m","m","i","t","t","e","d">>,
     push |-> <<"p","u","s","h">>,
     git |-> <<"g","i","t">>,
     version |-> <<"v","e","r","s","i","o","n">>,
     bump |-> <<"b","u","m","p">>,
     publish |-> <<"p","u","b","l","i","s","h">>,
     release |-> <<"r","e","l","e","a","s","e">>,
     update |-> <<"u","p","d","a","t","e">>,
     plugin |-> <<"p","l","u","g","i","n">>,
     marketplace |-> <<"m","a","r","k","e","t","p","l","a","c","e">>,
     readme |-> <<"r","e","a","d","m","e">>,
     documentation |-> <<"d","o","c","u","m","e","n","t","a","t","i","o","n">>,
     doc |-> <<"d","o","c">>,
     write |-> <<"w","r","i","t","e">>,
     test |-> <<"t","e","s","t">>,
     testing |-> <<"t","e","s","t","i","n","g">>,
     fix |-> <<"f","i","x">>,
     error |-> <<"e","r","r","o","r">>,
     bug |-> <<"b","u","g">>,
     implement |-> <<"i","m","p","l","e","m","e","n","t">>,
     implementation |-> <<"i","m","p","l","e","m","e","n","t","a","t","i","o","n">>,
     build |-> <<"b","u","i","l","d">>,
     add |-> <<"a","d","d">>,
     create |-> <<"c","r","e","a","t","e">>]

\* sizes fixed by the code
MaxExamples == 5
ExamplePrompts == 5
MinImplCount == 5

\* s[:n]
Take(s, n) == SubSeq(s, 1, IF Len(s) < n THEN Len(s) ELSE n)

\* a join that keeps only the first prompt
Combined_FirstOnly(ps) == IF ps = << >> THEN << >> ELSE Lower(ps[1])

\* ' '.join([p.lower() for p in session['prompts']])
RECURSIVE Combined(_)
Combined(ps) ==
    IF ps = << >> THEN << >>
    ELSE IF Len(ps) = 1 THEN Lower(ps[1])
    ELSE Lower(ps[1]) \o <<" ">> \o Combined(Tail(ps))

\* s.count(p) from position i on: occurrences that do not overlap, left to right
RECURSIVE CountFrom(_, _, _)
CountFrom(p, s, i) ==
    LET at == {j \in i..Len(s) : MatchAt(p, s, j)}
    IN  IF at = {} THEN 0
        ELSE 1 + CountFrom(p, s, (CHOOSE j \in at : \A k \in at : j <= k) + Len(p))
Count(p, s) == CountFrom(p, s, 1)

\* lines 74-78
MatchesGit(session) ==
    LET combined == Combined(session.prompts)
        has_commit == Contains(Kw.commit, combined) \/ Contains(Kw.committed, combined)
        has_push == Contains(Kw.push, combined)
    IN  (has_commit /\ has_push) \/ Count(Kw.git, combined) >= 2

\* lines 93-98
MatchesVersion(session) ==
    LET combined == Combined(session.prompts)
        has_version == Contains(Kw.version, combined) \/ Contains(Kw.bump, combined)
        has_publish == \/ Contains(Kw.publish, combined)
                       \/ Contains(Kw.release, combined)
                       \/ Contains(Kw.update, combined)
        has_plugin == Contains(Kw.plugin, combined) \/ Contains(Kw.marketplace, combined)
    IN  (has_version /\ has_publish) \/ (has_plugin /\ (has_version \/ has_publish))

\* a documentation test that wants "doc" alone
MatchesDoc_DocAlone(session) ==
    LET combined == Combined(session.prompts)
    IN  Contains(Kw.readme, combined) \/ Contains(Kw.doc, combined)

\* lines 113-114
MatchesDoc(session) ==
    LET combined == Combined(session.prompts)
    IN  \/ Contains(Kw.readme, combined)
        \/ Contains(Kw.documentation, combined)
        \/ /\ Contains(Kw.doc, combined)
           /\ Contains(Kw.update, combined) \/ Contains(Kw.write, combined)

\* lines 129-133
MatchesTestFix(session) ==
    LET combined == Combined(session.prompts)
        has_test == Contains(Kw.test, combined) \/ Contains(Kw.testing, combined)
        has_fix == \/ Contains(Kw.fix, combined)
                   \/ Contains(Kw.error, combined)
                   \/ Contains(Kw.bug, combined)
    IN  has_test /\ has_fix

\* lines 148-151
MatchesImpl(session) ==
    LET combined == Combined(session.prompts)
        has_impl == \/ Contains(Kw.implement, combined)
                    \/ Contains(Kw.implementation, combined)
                    \/ Contains(Kw.build, combined)
    IN  \/ has_impl
        \/ /\ session.count >= MinImplCount
           /\ Contains(Kw.add, combined) \/ Contains(Kw.create, combined)

\* the keys of patterns_found, in the order the code stores them
PatternNames ==
    <<"git_commit_push", "version_publish", "documentation_updates", "test_fix_cycles",
      "implementation_workflows">>

Matches(name, session) ==
    CASE name = "git_commit_push" -> MatchesGit(session)
      [] name = "version_publish" -> MatchesVersion(session)
      [] name = "documentation_updates" -> MatchesDoc(session)
      [] name = "test_fix_cycles" -> MatchesTestFix(session)
      [] name = "implementation_workflows" -> MatchesImpl(session)

\* the entry appended for a matching session
Example(session) ==
    [session |-> session.session, project |-> session.project,
     prompts |-> Take(session.prompts, ExamplePrompts)]

\* one `for session in sessions_data` loop: the entries of the matching sessions
RECURSIVE Matching(_, _)
Matching(name, sessions) ==
    IF sessions = << >> THEN << >>
    ELSE IF Matches(name, Head(sessions))
         THEN <<Example(Head(sessions))>> \o Matching(name, Tail(sessions))
         ELSE Matching(name, Tail(sessions))

\* an entry whose count is taken after the cut
PatternEntry_CountCut(found) ==
    [count |-> Len(Take(found, MaxExamples)), examples |-> Take(found, MaxExamples)]

\* {'count': len(found), 'examples': found[:5]}
PatternEntry(found) == [count |-> Len(found), examples |-> Take(found, MaxExamples)]

\* patterns_found
PatternsFound(sessions) ==
    [name \in {PatternNames[k] : k \in 1..Len(PatternNames)} |->
        PatternEntry(Matching(name, sessions))]

NoPatterns == << >>
NoReport == [made |-> FALSE]


----------------------------------------------------------------------------
(* Pipeline B: the state analyze_sessions is in when the file loop has     *)
(* ended (line 68), for session files that were all read to the end        *)

MaxVaried == 1
MaxSessions == 7

\* contents of qualifying prompts
Texts ==
    [commit |-> <<"P","l","e","a","s","e"," ","C","o","m","m","i","t"," ","t","h","e"," ","c","h","a","n","g","e","s">>,
     push |-> <<"n","o","w"," ","p","u","s","h"," ","i","t"," ","t","o"," ","t","h","e"," ","r","e","m","o","t","e">>,
     git2 |-> <<"g","i","t"," ","s","t","a","t","u","s"," ","t","h","e","n"," ","G","i","t"," ","d","i","f","f">>,
     bump |-> <<"b","u","m","p"," ","t","h","e"," ","p","l","u","g","i","n"," ","v","e","r","s","i","o","n"," ","n","o","w">>,
     release |-> <<"p","r","e","p","a","r","e"," ","t","h","e"," ","n","e","x","t"," ","r","e","l","e","a","s","e">>,
     readme |-> <<"r","e","f","r","e","s","h"," ","t","h","e"," ","R","E","A","D","M","E"," ","w","o","r","d","i","n","g">>,
     doc |-> <<"w","r","i","t","e"," ","a","n"," ","a","p","i"," ","d","o","c"," ","s","e","c","t","i","o","n">>,
     docs |-> <<"w","h","e","r","e"," ","a","r","e"," ","t","h","e"," ","d","o","c","s"," ","s","t","o","r","e","d">>,
     test |-> <<"r","u","n"," ","t","h","e"," ","w","h","o","l","e"," ","t","e","s","t"," ","s","u","i","t","e">>,
     fix |-> <<"f","i","x"," ","t","h","e"," ","p","a","r","s","e","r"," ","e","r","r","o","r"," ","n","o","w">>,
     latest |-> <<"s","h","o","w"," ","l","a","t","e","s","t"," ","p","r","e","f","i","x"," ","v","a","l","u","e">>,
     build |-> <<"b","u","i","l","d"," ","t","h","e"," ","p","a","r","s","e","r"," ","m","o","d","u","l","e">>,
     add |-> <<"a","d","d"," ","a"," ","h","e","l","p","e","r"," ","t","o"," ","t","h","e"," ","m","o","d","u","l","e">>,
     plain |-> <<"w","h","a","t"," ","i","s"," ","t","h","e"," ","w","e","a","t","h","e","r"," ","l","i","k","e">>]

\* the prompts of one session file, by the name of its shape
SessionShapes ==
    [commit_push |-> <<Texts.commit, Texts.push>>,
     commit |-> <<Texts.commit>>,
     git2 |-> <<Texts.git2>>,
     bump |-> <<Texts.bump>>,
     release |-> <<Texts.release>>,
     release_bump |-> <<Texts.release, Texts.plain, Texts.bump>>,
     readme |-> <<Texts.readme>>,
     doc |-> <<Texts.doc>>,
     docs |-> <<Texts.docs>>,
     test |-> <<Texts.test>>,
     test_fix |-> <<Texts.test, Texts.fix>>,
     latest |-> <<Texts.latest>>,
     build |-> <<Texts.build>>,
     add4 |-> <<Texts.add, Texts.add, Texts.add, Texts.add>>,
     add5 |-> <<Texts.add, Texts.add, Texts.add, Texts.add, Texts.add>>,
     long6 |-> <<Texts.plain, Texts.commit, Texts.add, Texts.plain, Texts.plain, Texts.push>>,
     plain |-> <<Texts.plain>>]

\* shapes used in the long inputs
CapShapes == {"long6", "plain"}

\* the inputs: up to MaxVaried files of any shape, or up to MaxSessions files
\* of the shapes in CapShapes
SessionInputs ==
    UNION {[1..n -> DOMAIN SessionShapes] : n \in 0..MaxVaried}
    \cup UNION {[1..n -> CapShapes] : n \in 0..MaxSessions}

\* parent directory and stem of the k-th path
ProjectNames == <<"projA", "projB", "projC", "projD", "projE", "projF", "projG", "projH">>
SessionNames == <<"s1", "s2", "s3", "s4", "s5", "s6", "s7", "s8">>
ProjectAt(k) == ProjectNames[((k - 1) % 2) + 1]

\* sessions_data after reading files of the shapes sh
SessionsOf(sh) ==
    [k \in 1..Len(sh) |->
        [project |-> ProjectAt(k), session |-> SessionNames[k],
         prompts |-> SessionShapes[sh[k]], count |-> Len(SessionShapes[sh[k]])]]

\* all_prompts after reading those files
RECURSIVE AllPromptsOf(_)
AllPromptsOf(sessions) ==
    IF sessions = << >> THEN << >>
    ELSE LET h == Head(sessions)
         IN  [k \in 1..Len(h.prompts) |->
                [text |-> h.prompts[k], lower |-> Lower(h.prompts[k]),
                 project |-> h.project, session |-> h.session]]
             \o AllPromptsOf(Tail(sessions))

InitB ==
    /\ b_pc = "loop"
    /\ n_files = 0
    /\ cur_file = NoFile
    /\ prompts = << >>
    /\ all_prompts = << >>
    /\ sessions_data = << >>
    /\ n_lines = 0
    /\ cur_class = "none"
    /\ summary = NoSummary
    /\ project_activity = << >>
    /\ b_file = "none"
    /\ b_mark = 0
    /\ patterns = NoPatterns
    /\ report = NoReport
    /\ report_printed = FALSE
    /\ b_mark_s = 0
    /\ b_expect = << >>
    /\ b_yield = << >>
    /\ c_all_prompts = << >>
    /\ c_sessions_data = << >>

\* the next entry of session_files: the path's parent directory and stem are
\* taken, then the file is opened; open() raising is swallowed by `except Exception`
StartFile(project, session, opens) ==
    /\ UNCHANGED <<varsA, varsU>>
    /\ b_pc = "loop"
    /\ n_files < MaxFiles
    /\ n_files' = n_files + 1
    /\ cur_file' = [project |-> project, session |-> session]
    /\ prompts' = << >>
    /\ n_lines' = 0
    /\ b_pc' = IF opens THEN "reading" ELSE "loop"
    /\ b_file' = IF opens THEN "reading" ELSE "failed_open"
    /\ b_mark' = Len(all_prompts)
    /\ b_mark_s' = Len(sessions_data)
    /\ b_expect' = << >>
    /\ UNCHANGED <<all_prompts, sessions_data, cur_class, summary, project_activity, tailB,
                   b_yield, c_all_prompts, c_sessions_data>>

\* the stated criterion of a countable prompt, used only for the history
\* variables cur_class and b_expect
Qualifies(line) ==
    /\ line.kind = "obj"
    /\ line.type = "user"
    /\ line.message = "dict"
    /\ line.role = "user"
    /\ line.isMeta # "true"
    /\ line.content.t = "str"
    /\ ~StartsWith(line.content.s, CommandPrefix)
    /\ ~StartsWith(line.content.s, LocalCommandPrefix)
    /\ Len(line.content.s) >= 21

\* one iteration of `for line in f`
ReadLine(line) ==
    /\ UNCHANGED <<varsA, varsU>>
    /\ b_pc = "reading"
    /\ n_lines < MaxLines
    /\ ProcessLine(line) = "append" => Len(all_prompts) < MaxPrompts
    /\ n_lines' = n_lines + 1
    /\ cur_class' = IF Qualifies(line) THEN "qualifying" ELSE "other"
    /\ b_expect' = IF Qualifies(line) THEN Append(b_expect, line.content.s) ELSE b_expect
    /\ LET r == ProcessLine(line) IN
        /\ prompts' = IF r = "append" THEN Append(prompts, line.content.s) ELSE prompts
        /\ all_prompts' =
              IF r = "append"
              THEN Append(all_prompts, [text |-> line.content.s, lower |-> Lower(line.content.s),
                                        project |-> cur_file.project,
                                        session |-> cur_file.session])
              ELSE all_prompts
        /\ b_pc' = IF r = "raise" THEN "loop" ELSE "reading"
        /\ b_file' = IF r = "raise" THEN "failed_line" ELSE "reading"
        /\ b_yield' = IF r = "raise" /\ b_expect' # << >>
                      THEN Append(b_yield, cur_file.project) ELSE b_yield
    /\ UNCHANGED <<n_files, cur_file, sessions_data, summary, project_activity, tailB,
                   b_mark, b_mark_s, c_all_prompts, c_sessions_data>>

\* reading the file raises part-way (I/O or decoding error): `except Exception: continue`
ReadError ==
    /\ UNCHANGED <<varsA, varsU>>
    /\ b_pc = "reading"
    /\ b_pc' = "loop"
    /\ b_file' = "failed_read"
    /\ b_yield' = IF b_expect # << >> THEN Append(b_yield, cur_file.project) ELSE b_yield
    /\ UNCHANGED <<n_files, cur_file, prompts, all_prompts, sessions_data, n_lines, cur_class,
                   summary, project_activity, tailB, b_mark, b_mark_s, b_expect,
                   c_all_prompts, c_sessions_data>>

\* the file is exhausted: `if prompts: sessions_data.append(...)`
EndOfFile ==
    /\ UNCHANGED <<varsA, varsU>>
    /\ b_pc = "reading"
    /\ sessions_data' =
          IF prompts # << >>
          THEN Append(sessions_data, [project |-> cur_file.project, session |-> cur_file.session,
                                      prompts |-> prompts, count |-> Len(prompts)])
          ELSE sessions_data
    /\ b_pc' = "loop"
    /\ b_file' = "complete"
    /\ b_yield' = IF b_expect # << >> THEN Append(b_yield, cur_file.project) ELSE b_yield
    /\ c_all_prompts' = c_all_prompts \o SubSeq(all_prompts, b_mark + 1, Len(all_prompts))
    /\ c_sessions_data' =
          IF prompts # << >>
          THEN Append(c_sessions_data, [project |-> cur_file.project, session |-> cur_file.session,
                                        prompts |-> prompts, count |-> Len(prompts)])
          ELSE c_sessions_data
    /\ UNCHANGED <<n_files, cur_file, prompts, all_prompts, n_lines, cur_class, summary,
                   project_activity, tailB, b_mark, b_mark_s, b_expect>>

\* session_files is exhausted: the pattern loops, the activity summary and the
\* returned counts
Finish ==
    /\ UNCHANGED <<varsA, varsU>>
    /\ b_pc = "loop"
    /\ b_pc' = "done"
    /\ patterns' = PatternsFound(sessions_data)
    /\ project_activity' = Tally(<< >>, sessions_data)
    /\ summary' = [total_sessions_analyzed |-> n_files,
                   sessions_with_user_prompts |-> Len(sessions_data),
                   total_user_prompts |-> Len(all_prompts),
                   ready |-> TRUE]
    /\ UNCHANGED <<n_files, cur_file, prompts, all_prompts, sessions_data, n_lines, cur_class,
                   report, report_printed, b_file, b_mark, b_mark_s, b_expect, b_yield,
                   c_all_prompts, c_sessions_data>>

----------------------------------------------------------------------------
(* Pipeline B: generate_report and the end of main()                       *)

MaxProjects == 6
MaxCount == 2
\* sizes fixed by the code
ListedProjects == 5
PreviewLen == 120

\* the characters of the project names
Spelling ==
    [projA |-> <<"-","U","s","e","r","s","-","a","n","t","-","c","o","d","e","-","a","p","p">>,
     projB |-> <<"-","U","s","e","r","s","-","a","n","t","-","n","o","t","e","s">>,
     projC |-> <<"s","i","t","e">>,
     projD |-> <<"-","U","s","e","r","s","-","a","n","t","-","c","o","d","e","-","c","l","i">>,
     projE |-> <<"-","U","s","e","r","s","-","a","n","t","-","c","o","d","e","-","-","U","s","e","r","s","-","a","n","t","-","x">>,
     projF |-> <<"t","o","o","l","s","-","U","s","e","r","s","-","a","n","t","-","c","o","d","e","-">>,
     projG |-> <<"-","U","s","e","r","s","-","a","n","t","-">>,
     projH |-> <<"d","o","c","s">>]
UsersAntCode == <<"-","U","s","e","r","s","-","a","n","t","-","c","o","d","e","-">>
UsersAnt == <<"-","U","s","e","r","s","-","a","n","t","-">>

\* project.replace('-Users-ant-code-', '').replace('-Users-ant-', '')
CleanName(project) == RemoveAll(RemoveAll(Spelling[project], UsersAntCode, 1), UsersAnt, 1)

\* prompt[:120].replace('\n', ' ')
Preview(prompt) ==
    [k \in 1..Len(Take(prompt, PreviewLen)) |-> IF prompt[k] = "\n" THEN " " ELSE prompt[k]]

\* an example block that reads examples[0] without looking whether there is one
ExampleLines_Unguarded(examples, n) ==
    IF examples = << >> THEN [raise |-> TRUE, from |-> << >>, lines |-> << >>]
    ELSE [raise |-> FALSE,
          from |-> RemoveAll(Spelling[examples[1].project], UsersAntCode, 1),
          lines |-> [k \in 1..Len(Take(examples[1].prompts, n)) |->
                        Preview(examples[1].prompts[k])]]

\* `if examples: example = examples[0] ...`: the project line and the first n
\* prompts of the first example, nothing when there is no example
ExampleLines(examples, n) ==
    IF examples = << >> THEN [raise |-> FALSE, from |-> << >>, lines |-> << >>]
    ELSE [raise |-> FALSE,
          from |-> RemoveAll(Spelling[examples[1].project], UsersAntCode, 1),
          lines |-> [k \in 1..Len(Take(examples[1].prompts, n)) |->
                        Preview(examples[1].prompts[k])]]

\* projects in the order they were given
SortedProjects_InputOrder(projects) == projects

\* sorted(projects.items(), key=lambda x: x[1], reverse=True): by falling
\* count, equal counts in their order of insertion
RECURSIVE SortedProjects(_)
SortedProjects(projects) ==
    IF projects = << >> THEN << >>
    ELSE LET rest == SortedProjects(SubSeq(projects, 1, Len(projects) - 1))
             x == projects[Len(projects)]
             ahead == {k \in 1..Len(rest) : rest[k].count >= x.count}
             at == IF ahead = {} THEN 0 ELSE CHOOSE k \in ahead : \A j \in ahead : j <= k
         IN  SubSeq(rest, 1, at) \o <<x>> \o SubSeq(rest, at + 1, Len(rest))

\* sum(projects.values())
RECURSIVE TotalSessions(_)
TotalSessions(projects) ==
    IF projects = << >> THEN 0 ELSE Head(projects).count + TotalSessions(Tail(projects))

\* f"{session_count / total_sessions * 100:.0f}" when total_sessions > 0, else
\* "0": the nearest whole number, a half going to the even one
Percentage(session_count, total_sessions) ==
    IF total_sessions > 0
    THEN LET q == (100 * session_count) \div total_sessions
             r == (100 * session_count) % total_sessions
         IN  [raise |-> FALSE,
              value |-> IF 2 * r > total_sessions \/ (2 * r = total_sessions /\ q % 2 = 1)
                        THEN q + 1 ELSE q]
    ELSE [raise |-> FALSE, value |-> 0]

\* what generate_report(analysis_data) returns, by its variable parts
ReportOf(s, pats, projects) ==
    LET version_example == ExampleLines(pats["version_publish"].examples, 3)
        impl_example == ExampleLines(pats["implementation_workflows"].examples, 2)
        sorted_projects == SortedProjects(projects)
        total_sessions == TotalSessions(projects)
        shown == Take(sorted_projects, ListedProjects)
        percentages == [k \in 1..Len(shown) |-> Percentage(shown[k].count, total_sessions)]
    IN  [made |-> TRUE,
         raised |-> \/ version_example.raise
                    \/ impl_example.raise
                    \/ \E k \in 1..Len(shown) : percentages[k].raise,
         heading |-> "# Claude Code Workflow Analysis Report",
         sessions_reviewed |-> s.sessions_with_user_prompts,
         sessions_total |-> s.total_sessions_analyzed,
         prompts_examined |-> s.total_user_prompts,
         frequency |-> [name \in DOMAIN pats |-> pats[name].count],
         version_example |-> version_example,
         impl_example |-> impl_example,
         listed |-> [k \in 1..Len(shown) |->
                        [project |-> shown[k].project, name |-> CleanName(shown[k].project),
                         sessions |-> shown[k].count, percentage |-> percentages[k].value]],
         most_active |-> IF sorted_projects # << >>
                         THEN RemoveAll(Spelling[sorted_projects[1].project], UsersAntCode, 1)
                         ELSE <<"u","n","k","n","o","w","n">>]

\* project_activity mappings handed to generate_report: up to MaxProjects
\* projects with 1..MaxCount sessions each
ActivityInputs ==
    UNION {{[k \in 1..n |-> [project |-> ProjectNames[k], count |-> c[k]]] :
                c \in [1..n -> 1..MaxCount]} : n \in 0..MaxProjects}

\* the state at line 68 for the input sh
InitTail(sh) ==
    /\ b_pc = "loop"
    /\ n_files = Len(sh)
    /\ cur_file = NoFile
    /\ prompts = << >>
    /\ all_prompts = AllPromptsOf(SessionsOf(sh))
    /\ sessions_data = SessionsOf(sh)
    /\ n_lines = 0
    /\ cur_class = "none"
    /\ summary = NoSummary
    /\ project_activity = << >>
    /\ patterns = NoPatterns
    /\ report = NoReport
    /\ report_printed = FALSE
    /\ b_file = IF sh = << >> THEN "none" ELSE "complete"
    /\ b_mark = 0
    /\ b_mark_s = 0
    /\ b_expect = << >>
    /\ b_yield = [k \in 1..Len(sh) |-> ProjectAt(k)]
    /\ c_all_prompts = AllPromptsOf(SessionsOf(sh))
    /\ c_sessions_data = SessionsOf(sh)

\* an analysis result handed to generate_report by a caller
InitGiven(projects, sh) ==
    /\ b_pc = "given"
    /\ n_files = TotalSessions(projects)
    /\ cur_file = NoFile
    /\ prompts = << >>
    /\ all_prompts = << >>
    /\ sessions_data = << >>
    /\ n_lines = 0
    /\ cur_class = "none"
    /\ summary = [total_sessions_analyzed |-> TotalSessions(projects),
                  sessions_with_user_prompts |-> TotalSessions(projects),
                  total_user_prompts |-> TotalSessions(projects),
                  ready |-> TRUE]
    /\ project_activity = projects
    /\ patterns = PatternsFound(SessionsOf(sh))
    /\ report = NoReport
    /\ report_printed = FALSE
    /\ b_file = "none"
    /\ b_mark = 0
    /\ b_mark_s = 0
    /\ b_expect = << >>
    /\ b_yield = << >>
    /\ c_all_prompts = << >>
    /\ c_sessions_data = << >>

\* report = generate_report(analysis_results)
GenerateReport ==
    /\ UNCHANGED <<varsA, varsU>>
    /\ b_pc \in {"done", "given"}
    /\ LET r == ReportOf(summary, patterns, project_activity) IN
        /\ report' = r
        /\ b_pc' = IF r.raised THEN "raised" ELSE IF b_pc = "done" THEN "reported" ELSE "returned"
    /\ UNCHANGED <<n_files, cur_file, prompts, all_prompts, sessions_data, n_lines, cur_class,
                   summary, project_activity, patterns, report_printed, b_file, b_mark,
                   b_mark_s, b_expect, b_yield, c_all_prompts, c_sessions_data>>

\* print(report)
PrintReport ==
    /\ UNCHANGED <<varsA, varsU>>
    /\ b_pc = "reported"
    /\ b_pc' = "printed"
    /\ report_printed' = TRUE
    /\ UNCHANGED <<n_files, cur_file, prompts, all_prompts, sessions_data, n_lines, cur_class,
                   summary, project_activity, patterns, report, b_file, b_mark, b_mark_s,
                   b_expect, b_yield, c_all_prompts, c_sessions_data>>

----------------------------------------------------------------------------
(* Pipeline A: what the external tools and registries may answer           *)

\* values a registry may give as repository URL
RepoUrls == {GitHttpsPrefix \o GithubCom \o <<"/","s","o","c","k","e","t","i","o","/","s","o","c","k","e","t",".","i","o",".","g","i","t">>,
             HttpsPrefix \o GithubCom \o <<"/","l","o","d","a","s","h">>,
             HttpsPrefix \o <<"g","i","t","l","a","b",".","c","o","m","/","o","/","n">>}

\* how the plain fields of an answer are filled: with a value, absent, or null
FieldKinds == {"present", "missing", "null"}

\* stdout of `npm view <pkg> --json`
NpmViewDocs ==
    {[top |-> t, fields |-> "missing", repository |-> "missing", url |-> << >>] :
        t \in StdoutTops \ {"obj"}}
    \cup {[top |-> "obj", fields |-> f, repository |-> r, url |-> << >>] :
            f \in FieldKinds,
            r \in {"missing", "null", "num", "list", "dict_nourl", "dict_nullurl"}}
    \cup {[top |-> "obj", fields |-> "present", repository |-> r, url |-> u] :
            r \in {"str", "dict_url"}, u \in RepoUrls}

\* stdout of the other JSON-printing commands
PlainDocs == {[top |-> t, fields |-> f] : t \in StdoutTops, f \in {"present"}}
    \cup {[top |-> "obj", fields |-> f] : f \in FieldKinds}

\* a module path on github.com
GithubModulePath == GithubCom \o <<"/","o","/","n">>
\* stdout of `go list -m -json <pkg>`: Path is a plain name or a github.com path
GoDocs == {[top |-> d.top, fields |-> d.fields, path |-> p] :
              d \in PlainDocs, p \in {"plain", "github"}}

\* stdout of `gh api ... --jq length` and `--jq .license.spdx_id`: digits, other
\* text, blanks only, or nothing
JqDocs == {[top |-> t] : t \in {"digits", "text", "blank", "empty"}}

\* body of https://pypi.org/pypi/<pkg>/json
PypiDocs ==
    {[top |-> t, info |-> "missing", fields |-> "missing", project_urls |-> "missing",
      url |-> << >>, keywords |-> "missing", releases |-> "missing", release |-> "files"] :
        t \in JsonTops \ {"obj"}}
    \cup {[top |-> "obj", info |-> i, fields |-> f, project_urls |-> "missing", url |-> << >>,
           keywords |-> k, releases |-> r, release |-> e] :
            i \in {"obj", "missing", "null"}, f \in FieldKinds,
            k \in {"missing", "null", "str", "list"},
            r \in {"missing", "null", "obj"},
            e \in {"files", "nofiles", "null_list", "null_first"}}
    \cup {[top |-> "obj", info |-> "obj", fields |-> "present", project_urls |-> pu, url |-> u,
           keywords |-> "str", releases |-> "obj", release |-> "files"] :
            pu \in {"with_source"}, u \in RepoUrls}
    \cup {[top |-> "obj", info |-> "obj", fields |-> "present", project_urls |-> pu,
           url |-> << >>, keywords |-> "str", releases |-> "obj", release |-> "files"] :
            pu \in {"null", "no_source"}}

\* body of https://crates.io/api/v1/crates/<name>
CrateDocs ==
    {[top |-> t, crate |-> "missing", fields |-> "missing", license |-> "missing",
      repository |-> "missing", url |-> << >>] : t \in JsonTops \ {"obj"}}
    \cup {[top |-> "obj", crate |-> c, fields |-> f, license |-> l, repository |-> r,
           url |-> << >>] :
            c \in {"obj", "missing", "null"}, f \in FieldKinds, l \in FieldKinds,
            r \in {"missing", "null"}}
    \cup {[top |-> "obj", crate |-> "obj", fields |-> "present", license |-> "present",
           repository |-> "str", url |-> u] : u \in RepoUrls}

\* body of https://crates.io/api/v1/crates/<name>/versions
CrateVersionsDocs ==
    {[top |-> t, versions |-> "missing"] : t \in JsonTops \ {"obj"}}
    \cup {[top |-> "obj", versions |-> v] :
            v \in {"missing", "null", "emptylist", "objects", "not_objects"}}

\* body of https://api.github.com/repos/<owner>/<repo>
RepoApiDocs == {[top |-> t, fields |-> "present"] : t \in JsonTops}
    \cup {[top |-> "obj", fields |-> f] : f \in FieldKinds}

\* info.get(k, default) and the like, for a plain field
Scalar(kind, default) ==
    CASE kind = "present" -> Text
      [] kind = "null" -> NullV
      [] OTHER -> default

\* the same for a list-valued field
ListField(kind) ==
    CASE kind = "present" -> ListV
      [] kind = "null" -> NullV
      [] OTHER -> EmptyList

\* the same for a number-valued field with default 0
NumField(kind) ==
    CASE kind = "present" -> NumV
      [] kind = "null" -> NullV
      [] OTHER -> Val("zero")

\* what a handler of a returned call does: raise, or go on with `data`, having
\* appended `warn` to self.warnings
Continue(d) == [raise |-> FALSE, data |-> d, warn |-> << >>]
Warn(d, kind, what) == [raise |-> FALSE, data |-> d, warn |-> <<Msg(kind, what)>>]
Throw(d) == [raise |-> TRUE, data |-> d, warn |-> << >>]

\* `if success and stdout:` followed by json.loads(stdout) in a try that
\* catches JSONDecodeError only
Parsed(r) == r.success /\ StdoutNonEmpty(r.stdout) /\ ~Unparsable(r.stdout)
ParseFails(r) == r.success /\ StdoutNonEmpty(r.stdout) /\ Unparsable(r.stdout)

----------------------------------------------------------------------------
(* Pipeline A: what each routine does with a returned call                 *)

\* npm_data.get('repository', {}).get('url', '') if the repository is a dict,
\* else npm_data.get('repository', '')
NpmRepositoryUrl(doc) ==
    LET r == Field(doc, "repository")
    IN  CASE r \in {"dict_url", "str"} -> Str(doc.url)
          [] r \in {"dict_nullurl", "null"} -> NullV
          [] r = "num" -> NumV
          [] r = "list" -> ListV
          [] OTHER -> EmptyStr

\* gather_npm_data, after `npm view <pkg> --json`
NpmView(d, r) ==
    IF ParseFails(r) THEN Warn(d, "Failed to parse npm view output", "npm_view")
    ELSE IF ~Parsed(r) THEN Continue(d)
    ELSE IF ~IsObj(r.stdout) THEN Throw(d)
    ELSE LET f == Field(r.stdout, "fields")
         IN  Continue(Put(Put(Put(Put(Put(Put(Put(d,
                "latest_version", Scalar(f, EmptyStr)),
                "license", Scalar(f, EmptyStr)),
                "description", Scalar(f, EmptyStr)),
                "homepage", Scalar(f, EmptyStr)),
                "repository_url", NpmRepositoryUrl(r.stdout)),
                "maintainers", ListField(f)),
                "keywords", ListField(f)))

\* gather_npm_data, after `npm view <pkg> time --json`: publish_history is
\* stored before time_data.keys() is evaluated
NpmTime(d, r) ==
    IF ParseFails(r) THEN Warn(d, "Failed to parse npm time output", "npm_time")
    ELSE IF ~Parsed(r) THEN Continue(d)
    ELSE IF ~IsObj(r.stdout) THEN Throw(Put(d, "publish_history", Val(r.stdout.top)))
    ELSE Continue(Put(Put(d, "publish_history", DictV), "versions_count", NumV))

\* gather_npm_data, after `npm view <pkg> versions --json`
NpmVersions(d, r) ==
    IF ParseFails(r) THEN Warn(d, "Failed to parse npm versions output", "npm_versions")
    ELSE IF ~Parsed(r) THEN Continue(d)
    ELSE Continue(Put(d, "all_versions", ListV))

\* info.get('project_urls', {}).get('Source', info.get('project_url', ''))
PypiRepositoryUrl(doc) ==
    IF doc.project_urls = "with_source" THEN Str(doc.url) ELSE Scalar(doc.fields, EmptyStr)

\* gather_pypi_data, after fetch_url
Pypi(d, ret) ==
    IF ~DocTruthy(ret) THEN Continue(d)
    ELSE IF ~IsObj(ret) THEN Throw(d)
    ELSE IF ret.info = "null" THEN Throw(d)
    ELSE LET f == IF ret.info = "obj" THEN ret.fields ELSE "missing"
             pu == IF ret.info = "obj" THEN ret.project_urls ELSE "missing"
             kw == IF ret.info = "obj" THEN ret.keywords ELSE "missing"
             d4 == Put(Put(Put(Put(d,
                      "latest_version", Scalar(f, EmptyStr)),
                      "license", Scalar(f, EmptyStr)),
                      "description", Scalar(f, EmptyStr)),
                      "homepage", Scalar(f, EmptyStr))
             d6 == Put(Put(d4,
                      "repository_url",
                          IF ret.info = "obj" THEN PypiRepositoryUrl(ret) ELSE EmptyStr),
                      "author", Scalar(f, EmptyStr))
             d7 == Put(d6, "keywords", IF kw = "str" THEN ListV ELSE EmptyList)
             d8 == Put(d7, "versions_count", IF ret.releases = "obj" THEN NumV ELSE Val("zero"))
         IN  IF pu = "null" THEN Throw(d4)
             ELSE IF kw = "list" THEN Throw(d6)
             ELSE IF ret.releases = "null" THEN Throw(d7)
             ELSE IF ret.releases = "obj" /\ ret.release = "null_first" THEN Throw(d8)
             ELSE Continue(Put(d8, "publish_history", DictV))

\* gather_cargo_data, after the first fetch_url; `more` tells whether the
\* version list is fetched next
Cargo(d, ret) ==
    IF ~DocTruthy(ret) THEN [more |-> FALSE] @@ Continue(d)
    ELSE IF ret.top = "num" THEN [more |-> FALSE] @@ Throw(d)
    ELSE IF ~IsObj(ret) \/ ret.crate = "missing" THEN [more |-> FALSE] @@ Continue(d)
    ELSE IF ret.crate = "null" THEN [more |-> FALSE] @@ Throw(d)
    ELSE LET f == ret.fields
             d1 == Put(d, "latest_version", Scalar(f, EmptyStr))
             d7 == Put(Put(Put(Put(Put(Put(d1,
                      "license", Scalar(ret.license, EmptyStr)),
                      "description", Scalar(f, EmptyStr)),
                      "homepage", Scalar(f, EmptyStr)),
                      "repository_url",
                          IF ret.repository = "str" THEN Str(ret.url)
                          ELSE Scalar(ret.repository, EmptyStr)),
                      "downloads", NumField(f)),
                      "recent_downloads", NumField(f))
         IN  IF ret.license = "null" THEN [more |-> FALSE] @@ Throw(d1)
             ELSE [more |-> TRUE] @@ Continue(d7)

\* gather_cargo_data, after the second fetch_url
CargoVersions(d, ret) ==
    IF ~DocTruthy(ret) THEN Continue(d)
    ELSE IF ret.top = "num" THEN Throw(d)
    ELSE IF ~IsObj(ret) \/ ret.versions = "missing" THEN Continue(d)
    ELSE IF ret.versions = "null" THEN Throw(d)
    ELSE IF ret.versions = "not_objects" THEN Throw(Put(d, "versions_count", NumV))
    ELSE IF ret.versions = "emptylist"
         THEN Continue(Put(Put(d, "versions_count", Val("zero")), "all_versions", EmptyList))
    ELSE Continue(Put(Put(d, "versions_count", NumV), "all_versions", ListV))

\* go_data.get('Path', '')
GoModulePath(doc) ==
    LET f == Field(doc, "fields")
    IN  IF f = "present" /\ doc.path = "github" THEN Str(GithubModulePath)
        ELSE Scalar(f, EmptyStr)

\* a Go adapter that also derives repository_url from the module path
GoList_WithRepositoryUrl(d, r) ==
    IF ParseFails(r) THEN Warn(d, "Failed to parse go list output", "go_list")
    ELSE IF ~Parsed(r) THEN Continue(d)
    ELSE IF ~IsObj(r.stdout) THEN Throw(d)
    ELSE LET f == Field(r.stdout, "fields")
         IN  Continue(Put(Put(Put(Put(d,
                "module_path", GoModulePath(r.stdout)),
                "latest_version", Scalar(f, EmptyStr)),
                "time", Scalar(f, EmptyStr)),
                "repository_url",
                    IF GoModulePath(r.stdout).t = "str"
                    THEN Str(HttpsPrefix \o GoModulePath(r.stdout).s) ELSE EmptyStr))

\* gather_go_data, after `go list -m -json <pkg>`
GoList(d, r) ==
    IF ParseFails(r) THEN Warn(d, "Failed to parse go list output", "go_list")
    ELSE IF ~Parsed(r) THEN Continue(d)
    ELSE IF ~IsObj(r.stdout) THEN Throw(d)
    ELSE LET f == Field(r.stdout, "fields")
         IN  Continue(Put(Put(Put(d,
                "module_path", GoModulePath(r.stdout)),
                "latest_version", Scalar(f, EmptyStr)),
                "time", Scalar(f, EmptyStr)))

\* the six core fields read from the repository document
CoreFields(d, doc) ==
    LET f == Field(doc, "fields")
    IN  Put(Put(Put(Put(Put(Put(d,
            "pushed_at", Scalar(f, EmptyStr)),
            "open_issues_count", NumField(f)),
            "stargazers_count", NumField(f)),
            "forks_count", NumField(f)),
            "watchers_count", NumField(f)),
            "default_branch", Scalar(f, EmptyStr))

\* a core-field step that also falls back when the CLI output does not parse
GhRepo_FallbackOnParseError(d, r) ==
    IF ParseFails(r)
    THEN [fallback |-> TRUE] @@ Warn(d, "Failed to parse gh api output", "gh_repo")
    ELSE IF ~Parsed(r) THEN [fallback |-> TRUE] @@ Continue(d)
    ELSE IF ~IsObj(r.stdout) THEN [fallback |-> FALSE] @@ Throw(d)
    ELSE [fallback |-> FALSE] @@ Continue(CoreFields(d, r.stdout))

\* gather_github_data, after `gh api repos/<owner>/<repo>`; `fallback` tells
\* whether the REST call is made next
GhRepo(d, r) ==
    IF ParseFails(r)
    THEN [fallback |-> FALSE] @@ Warn(d, "Failed to parse gh api output", "gh_repo")
    ELSE IF ~Parsed(r) THEN [fallback |-> TRUE] @@ Continue(d)
    ELSE IF ~IsObj(r.stdout) THEN [fallback |-> FALSE] @@ Throw(d)
    ELSE [fallback |-> FALSE] @@ Continue(CoreFields(d, r.stdout))

\* gather_github_data, after the fallback fetch_url
GhFallback(d, ret) ==
    IF ~DocTruthy(ret) THEN Continue(d)
    ELSE IF ~IsObj(ret) THEN Throw(d)
    ELSE Continue(CoreFields(d, ret))

\* gather_github_data, after `gh api repos/<owner>/<repo>/community/profile`
GhCommunity(d, r) ==
    IF ~Parsed(r) THEN Continue(d)
    ELSE IF ~IsObj(r.stdout) THEN Throw(d)
    ELSE Continue(Put(d, "community_health", DictV))

\* gather_github_data, after `gh api .../contributors --jq length`
GhContributors(d, r) ==
    IF r.success /\ r.stdout.top = "digits" THEN Continue(Put(d, "contributors_count", NumV))
    ELSE Continue(d)

\* gather_github_data, after `gh api .../license --jq .license.spdx_id`
GhLicense(d, r) ==
    IF r.success /\ r.stdout.top \in {"digits", "text"} THEN Continue(Put(d, "license_info", DictV))
    ELSE Continue(d)

----------------------------------------------------------------------------
NoCall == [fn |-> "none", site |-> "none", oc |-> "none", success |-> FALSE,
           stdout |-> NoOutput, stderr |-> "", none |-> FALSE, ret |-> NoneDoc]

\* Pipeline A before anything ran
IdleA ==
    /\ pc = "start"
    /\ entry = "none"
    /\ args_ecosystem = "none"
    /\ ecosystem = ""
    /\ errors = << >>
    /\ warnings = << >>
    /\ data = EmptyMap
    /\ registry_data = EmptyMap
    /\ github_data = EmptyMap
    /\ security_data = EmptyMap
    /\ dependency_footprint = EmptyMap
    /\ gh_repo = NoRepo
    /\ raised = FALSE
    /\ printed = FALSE
    /\ exit_status = 0
    /\ calls = << >>
    /\ faults = 0
    /\ last = NoCall


----------------------------------------------------------------------------
(* Pipeline A: main() and DependencyEvaluator.evaluate()                   *)

\* ecosystem arguments tried on the command line and on the constructor
EcosystemArgs == {"npm", "pypi", "cargo", "go", "NPM", "PyPI", "maven", ""}
\* choices=[...] of the ecosystem argument
Choices == {"npm", "pypi", "cargo", "go"}

\* ecosystem.lower()
LowerEco(a) == CASE a = "NPM" -> "npm" [] a = "PyPI" -> "pypi" [] OTHER -> a

\* the if/elif chain of evaluate, with no else branch
EcosystemRoute_NoElse(eco) ==
    CASE eco = "npm" -> "npm_view"
      [] eco = "pypi" -> "pypi"
      [] eco = "cargo" -> "cargo"
      [] eco = "go" -> "go_list"
      [] OTHER -> "security"

\* the if/elif chain of evaluate: where the ecosystem's data is gathered
EcosystemRoute(eco) ==
    CASE eco = "npm" -> "npm_view"
      [] eco = "pypi" -> "pypi"
      [] eco = "cargo" -> "cargo"
      [] eco = "go" -> "go_list"
      [] OTHER -> "unsupported"

\* the most external calls of one run that fail
MaxFaults == 1

CmdSites == {"npm_view", "npm_time", "npm_versions", "go_list", "gh_repo", "gh_community",
             "gh_contributors", "gh_license"}
FetchSites == {"pypi", "cargo", "cargo_versions", "gh_fallback"}

\* what the command run at a site may have printed when it ended as `oc`
StdoutDocs(site, oc) ==
    IF oc \notin {"exit0", "nonzero"} THEN {NoOutput}
    ELSE IF oc = "nonzero" THEN {[top |-> "empty"], [top |-> "garbage"]}
    ELSE CASE site = "npm_view" -> NpmViewDocs
           [] site = "go_list" -> GoDocs
           [] site \in {"gh_contributors", "gh_license"} -> JqDocs
           [] site \in CmdSites -> PlainDocs
           [] OTHER -> {}

\* what the URL fetched at a site may have held when the fetch ended as `oc`
BodyDocs(site, oc) ==
    IF oc # "ok" THEN {NoneDoc}
    ELSE CASE site = "pypi" -> PypiDocs
           [] site = "cargo" -> CrateDocs
           [] site = "cargo_versions" -> CrateVersionsDocs
           [] site = "gh_fallback" -> RepoApiDocs
           [] OTHER -> {}

\* an exception leaves evaluate(): under main() the interpreter prints the
\* traceback and ends with status 1
Propagate ==
    /\ raised' = TRUE
    /\ pc' = IF entry = "main" THEN "exited" ELSE "raised"
    /\ exit_status' = IF entry = "main" THEN 1 ELSE exit_status

\* main(): parser.parse_args() and the constructor; an argument outside
\* `choices` ends the process with status 2 and a usage message on stderr
MainParseArgs(arg) ==
    /\ UNCHANGED <<varsU, varsB>>
    /\ pc = "start"
    /\ entry' = "main"
    /\ args_ecosystem' = arg
    /\ IF arg \in Choices
       THEN /\ ecosystem' = LowerEco(arg)
            /\ pc' = "evaluate"
            /\ UNCHANGED exit_status
       ELSE /\ pc' = "exited"
            /\ exit_status' = 2
            /\ UNCHANGED ecosystem
    /\ UNCHANGED <<errors, warnings, data, registry_data, github_data, security_data,
                   dependency_footprint, gh_repo, raised, printed, calls, faults, last>>

\* DependencyEvaluator(package, arg) constructed by a caller, evaluate() called next
Construct(arg) ==
    /\ UNCHANGED <<varsU, varsB, args_ecosystem>>
    /\ pc = "start"
    /\ entry' = "api"
    /\ ecosystem' = LowerEco(arg)
    /\ pc' = "evaluate"
    /\ UNCHANGED <<errors, warnings, data, registry_data, github_data, security_data,
                   dependency_footprint, gh_repo, raised, printed, exit_status, calls, faults, last>>

\* evaluate(): the result skeleton and the ecosystem dispatch; result['errors']
\* and result['warnings'] are the lists self.errors and self.warnings themselves
EvaluateDispatch ==
    /\ UNCHANGED <<varsU, varsB, args_ecosystem>>
    /\ pc = "evaluate"
    /\ pc' = IF EcosystemRoute(ecosystem) = "unsupported" THEN "returned"
             ELSE EcosystemRoute(ecosystem)
    /\ errors' = IF EcosystemRoute(ecosystem) = "unsupported"
                 THEN Append(errors, Msg("Unsupported ecosystem", ecosystem))
                 ELSE errors
    /\ data' = EmptyMap
    /\ UNCHANGED <<entry, ecosystem, warnings, registry_data, github_data, security_data,
                   dependency_footprint, gh_repo, raised, printed, exit_status, calls, faults, last>>

\* self.run_command(...) at the current site
CallRunCommand(oc, out) ==
    /\ UNCHANGED <<varsU, varsB, args_ecosystem>>
    /\ pc \in CmdSites
    /\ last.fn = "none"
    /\ oc = "exit0" \/ faults < MaxFaults
    /\ faults' = IF oc = "exit0" THEN faults ELSE faults + 1
    /\ LET r == RunCommand(pc, oc, out) IN
        /\ warnings' = warnings \o r.warn
        /\ calls' = Append(calls, pc)
        /\ last' = [fn |-> "run_command", site |-> pc, oc |-> oc, success |-> r.success,
                    stdout |-> r.stdout, stderr |-> r.stderr, none |-> FALSE, ret |-> NoneDoc]
        /\ IF r.raise THEN Propagate ELSE UNCHANGED <<pc, raised, exit_status>>
    /\ UNCHANGED <<entry, ecosystem, errors, data, registry_data, github_data, security_data,
                   dependency_footprint, gh_repo, printed>>

\* self.fetch_url(...) at the current site
CallFetchUrl(oc, body) ==
    /\ UNCHANGED <<varsU, varsB, args_ecosystem>>
    /\ pc \in FetchSites
    /\ last.fn = "none"
    /\ oc = "ok" \/ faults < MaxFaults
    /\ faults' = IF oc = "ok" THEN faults ELSE faults + 1
    /\ LET r == FetchUrl(pc, oc, body) IN
        /\ errors' = errors \o r.errs
        /\ warnings' = warnings \o r.warns
        /\ calls' = Append(calls, pc)
        /\ last' = [fn |-> "fetch_url", site |-> pc, oc |-> oc, success |-> FALSE,
                    stdout |-> NoOutput, stderr |-> "", none |-> r.ret.top \in {"none", "null"},
                    ret |-> r.ret]
        /\ IF r.raise THEN Propagate ELSE UNCHANGED <<pc, raised, exit_status>>
    /\ UNCHANGED <<entry, ecosystem, data, registry_data, github_data, security_data,
                   dependency_footprint, gh_repo, printed>>

\* the caller goes on with what the handler `h` made of the returned call:
\* to `next`, storing the finished mapping in result[into] when the routine returns
Handled(site, h, next, into) ==
    /\ UNCHANGED <<varsU, varsB, args_ecosystem>>
    /\ pc = site
    /\ last.fn # "none"
    /\ last' = NoCall
    /\ warnings' = warnings \o h.warn
    /\ IF h.raise
       THEN /\ Propagate
            /\ data' = h.data
            /\ UNCHANGED <<registry_data, github_data>>
       ELSE /\ pc' = next
            /\ data' = IF into = "none" THEN h.data ELSE EmptyMap
            /\ registry_data' = IF into = "registry_data" THEN h.data ELSE registry_data
            /\ github_data' = IF into = "github_data" THEN h.data ELSE github_data
            /\ UNCHANGED <<raised, exit_status>>
    /\ UNCHANGED <<entry, ecosystem, errors, security_data, dependency_footprint, gh_repo,
                   printed, calls, faults>>

NpmViewDone == Handled("npm_view", NpmView(data, last), "npm_time", "none")
NpmTimeDone == Handled("npm_time", NpmTime(data, last), "npm_versions", "none")
NpmVersionsDone ==
    Handled("npm_versions", NpmVersions(data, last), "link_check", "registry_data")
PypiDone == Handled("pypi", Pypi(data, last.ret), "link_check", "registry_data")
CargoDone ==
    LET h == Cargo(data, last.ret)
    IN  Handled("cargo", h, IF h.more THEN "cargo_versions" ELSE "link_check",
                IF h.more THEN "none" ELSE "registry_data")
CargoVersionsDone ==
    Handled("cargo_versions", CargoVersions(data, last.ret), "link_check", "registry_data")
GoListDone == Handled("go_list", GoList(data, last), "link_check", "registry_data")
GhRepoDone ==
    LET h == GhRepo(data, last)
    IN  Handled("gh_repo", h, IF h.fallback THEN "gh_fallback" ELSE "gh_community", "none")
GhFallbackDone == Handled("gh_fallback", GhFallback(data, last.ret), "gh_community", "none")
GhCommunityDone == Handled("gh_community", GhCommunity(data, last), "gh_contributors", "none")
GhContributorsDone ==
    Handled("gh_contributors", GhContributors(data, last), "gh_license", "none")
GhLicenseDone == Handled("gh_license", GhLicense(data, last), "security", "github_data")

\* a decision that calls the linker for every non-empty string
LinkDecision_AnyUrl(repo_url) ==
    IF ~Truthy(repo_url) THEN "skip"
    ELSE IF repo_url.t = "num" THEN "raise"
    ELSE IF repo_url.t = "str" THEN "call"
    ELSE "skip"

\* evaluate(): `if repo_url and 'github.com' in repo_url`; "call" the
\* repository linker, "skip" it, or "raise" (a number has no `in`)
LinkDecision(repo_url) ==
    IF ~Truthy(repo_url) THEN "skip"
    ELSE IF repo_url.t = "num" THEN "raise"
    ELSE IF repo_url.t = "str" /\ Contains(GithubCom, repo_url.s) THEN "call"
    ELSE "skip"

LinkCheck ==
    /\ UNCHANGED <<varsU, varsB, args_ecosystem>>
    /\ pc = "link_check"
    /\ LET dec == LinkDecision(Get(registry_data, "repository_url", EmptyStr)) IN
        IF dec = "raise" THEN Propagate
        ELSE /\ pc' = IF dec = "call" THEN "gh_begin" ELSE "security"
             /\ UNCHANGED <<raised, exit_status>>
    /\ UNCHANGED <<entry, ecosystem, errors, warnings, data, registry_data, github_data,
                   security_data, dependency_footprint, gh_repo, printed, calls, faults, last>>

\* gather_github_data(repo_url), up to the first external call
GatherGithubBegin ==
    /\ UNCHANGED <<varsU, varsB, args_ecosystem>>
    /\ pc = "gh_begin"
    /\ LET url == registry_data["repository_url"].s
           info == ExtractGithubRepo(url)
       IN  IF info.found
           THEN /\ gh_repo' = info
                /\ data' = Put(EmptyMap, "repository_url", Str(CanonicalUrl(info)))
                /\ pc' = "gh_repo"
                /\ UNCHANGED <<warnings, github_data>>
           ELSE /\ warnings' = Append(warnings, MsgUrl("Could not parse GitHub URL", url))
                /\ github_data' = EmptyMap
                /\ pc' = "security"
                /\ UNCHANGED <<gh_repo, data>>
    /\ UNCHANGED <<entry, ecosystem, errors, registry_data, security_data,
                   dependency_footprint, raised, printed, exit_status, calls, faults, last>>

\* a security stub that appends no warning for npm
GatherSecurityData_NoWarning ==
    /\ UNCHANGED <<varsU, varsB, args_ecosystem>>
    /\ pc = "security"
    /\ security_data' = EmptyMap
    /\ pc' = "footprint"
    /\ UNCHANGED <<entry, ecosystem, errors, warnings, data, registry_data, github_data,
                   dependency_footprint, gh_repo, raised, printed, exit_status, calls, faults, last>>

\* gather_security_data()
GatherSecurityData ==
    /\ UNCHANGED <<varsU, varsB, args_ecosystem>>
    /\ pc = "security"
    /\ security_data' = EmptyMap
    /\ warnings' = IF ecosystem = "npm"
                   THEN Append(warnings, Msg("npm audit requires package.json context", "npm"))
                   ELSE warnings
    /\ pc' = "footprint"
    /\ UNCHANGED <<entry, ecosystem, errors, data, registry_data, github_data,
                   dependency_footprint, gh_repo, raised, printed, exit_status, calls, faults, last>>

\* gather_dependency_footprint(), and evaluate() returning the result
GatherDependencyFootprint ==
    /\ UNCHANGED <<varsU, varsB, args_ecosystem>>
    /\ pc = "footprint"
    /\ dependency_footprint' =
          [direct_dependencies |-> 0, total_dependencies |-> 0, tree_depth |-> 1]
    /\ warnings' = IF ecosystem = "npm"
                   THEN Append(warnings, Msg("npm ls requires package installation", "npm"))
                   ELSE warnings
    /\ pc' = "returned"
    /\ UNCHANGED <<entry, ecosystem, errors, data, registry_data, github_data, security_data,
                   gh_repo, raised, printed, exit_status, calls, faults, last>>

\* main(): print(json.dumps(result, indent=2))
MainPrint ==
    /\ UNCHANGED <<varsU, varsB, args_ecosystem>>
    /\ pc = "returned"
    /\ entry = "main"
    /\ printed' = TRUE
    /\ pc' = "printed"
    /\ UNCHANGED <<entry, ecosystem, errors, warnings, data, registry_data, github_data,
                   security_data, dependency_footprint, gh_repo, raised, exit_status, calls,
                   faults, last>>

\* main(): `if result['errors']: sys.exit(1)`, else the process ends with 0
MainExit ==
    /\ UNCHANGED <<varsU, varsB, args_ecosystem>>
    /\ pc = "printed"
    /\ exit_status' = IF errors # << >> THEN 1 ELSE 0
    /\ pc' = "exited"
    /\ UNCHANGED <<entry, ecosystem, errors, warnings, data, registry_data, github_data,
                   security_data, dependency_footprint, gh_repo, raised, printed, calls, faults, last>>

Init == IdleA /\ IdleU /\ InitB

Next ==
    \/ \E arg \in EcosystemArgs : MainParseArgs(arg)
    \/ \E arg \in EcosystemArgs : Construct(arg)
    \/ EvaluateDispatch
    \/ \E oc \in CmdOutcomes : \E out \in StdoutDocs(pc, oc) : CallRunCommand(oc, out)
    \/ \E oc \in FetchOutcomes : \E body \in BodyDocs(pc, oc) : CallFetchUrl(oc, body)
    \/ NpmViewDone
    \/ NpmTimeDone
    \/ NpmVersionsDone
    \/ PypiDone
    \/ CargoDone
    \/ CargoVersionsDone
    \/ GoListDone
    \/ LinkCheck
    \/ GatherGithubBegin
    \/ GhRepoDone
    \/ GhFallbackDone
    \/ GhCommunityDone
    \/ GhContributorsDone
    \/ GhLicenseDone
    \/ GatherSecurityData
    \/ GatherDependencyFootprint
    \/ MainPrint
    \/ MainExit

Spec == Init /\ [][Next]_vars

InitRepo == IdleA /\ InitU /\ InitB

NextRepo ==
    \/ \E form \in Forms : Extract(form)
    \/ \E form \in GithubForms : FeedBack(form)

SpecRepo == InitRepo /\ [][NextRepo]_vars

InitReport ==
    /\ IdleA /\ IdleU
    /\ \/ \E sh \in SessionInputs : InitTail(sh)
       \/ \E projects \in ActivityInputs : InitGiven(projects, <<"build", "bump">>)

NextReport ==
    \/ Finish
    \/ GenerateReport
    \/ PrintReport

SpecReport == InitReport /\ [][NextReport]_vars

InitAnalyzer == IdleA /\ IdleU /\ InitB

NextAnalyzer ==
    \/ \E p \in Projects, i \in SessionIds, opens \in BOOLEAN : StartFile(p, i, opens)
    \/ \E line \in Lines : ReadLine(line)
    \/ ReadError
    \/ EndOfFile
    \/ Finish

SpecAnalyzer == InitAnalyzer /\ [][NextAnalyzer]_vars

----------------------------------------------------------------------------
(* Properties of Pipeline A, under Spec                                    *)

Supported == {"npm", "pypi", "cargo", "go"}
\* t is s with exactly one entry appended
OneMore(s, t) == Len(t) = Len(s) + 1 /\ SubSeq(t, 1, Len(s)) = s

\* C1: when evaluate() returns for an ecosystem that, lowercased, is none of
\* npm, pypi, cargo, go, errors holds exactly one entry, an "Unsupported
\* ecosystem" message, and the four data sections are empty mappings.
C1_UnsupportedEcosystem ==
    (pc = "returned" /\ ecosystem \notin Supported) =>
        /\ Len(errors) = 1
        /\ errors[1].kind = "Unsupported ecosystem"
        /\ registry_data = EmptyMap
        /\ github_data = EmptyMap
        /\ security_data = EmptyMap
        /\ dependency_footprint = EmptyMap

\* evaluate() has returned for the ecosystem "maven"
C1_Witness ==
    /\ pc = "returned"
    /\ entry = "api"
    /\ ecosystem = "maven"
    /\ Len(errors) = 1

\* C2: every run of the command line that has ended has printed the JSON
\* document, and ended with status 1 if errors is non-empty and 0 otherwise.
C2_JsonPrintedAndExitStatus ==
    (entry = "main" /\ pc = "exited") =>
        /\ printed
        /\ exit_status = IF errors # << >> THEN 1 ELSE 0

\* C3: no exception leaves a data-gathering routine, whatever the external
\* calls answer.
C3_NoExceptionPropagates == ~raised

\* C4: fetch_url never raises; a successful fetch changes neither list; a 404
\* returns none and appends one entry to errors only; every other failure
\* returns none and appends one entry to warnings only.
C4_FetchUrlFailureClasses ==
    [][(last.fn = "none" /\ last'.fn = "fetch_url") =>
          /\ raised' = raised
          /\ last'.oc = "ok" => (errors' = errors /\ warnings' = warnings)
          /\ last'.oc = "http404" =>
                (last'.none /\ OneMore(errors, errors') /\ warnings' = warnings)
          /\ last'.oc \notin {"ok", "http404"} =>
                (last'.none /\ OneMore(warnings, warnings') /\ errors' = errors)]_vars

\* a fetch has just answered 404: none returned, one error, no warning
C4_Witness ==
    /\ last.fn = "fetch_url"
    /\ last.oc = "http404"
    /\ last.none
    /\ Len(errors) = 1
    /\ warnings = << >>

\* C5: run_command never raises and never changes errors; success is true
\* exactly when the process ran and exited with status zero; a timeout, a
\* missing executable or another exception gives (false, no stdout, an
\* explanatory stderr) and one more warning; a non-zero exit gives false with
\* the captured output and no warning.
C5_RunCommandOutcomes ==
    [][(last.fn = "none" /\ last'.fn = "run_command") =>
          /\ raised' = raised
          /\ errors' = errors
          /\ last'.success <=> last'.oc = "exit0"
          /\ last'.oc \in {"timeout", "notfound", "exception"} =>
                /\ last'.stdout = NoOutput
                /\ last'.stderr \notin {"", "captured"}
                /\ OneMore(warnings, warnings')
          /\ last'.oc \in {"exit0", "nonzero"} =>
                /\ last'.stderr = "captured"
                /\ warnings' = warnings]_vars

\* a command has just timed out: not successful, one warning, no error
C5_Witness ==
    /\ last.fn = "run_command"
    /\ last.oc = "timeout"
    /\ ~last.success
    /\ Len(warnings) = 1
    /\ errors = << >>

----------------------------------------------------------------------------
(* Properties of extract_github_repo, under SpecRepo                       *)

Chars(s) == {s[k] : k \in 1..Len(s)}
Exactly(o, n) == [found |-> TRUE, owner |-> o, repo |-> n]

\* C6: the HTTPS, git+https and SSH spellings of one repository, each with and
\* without a ".git" suffix, all get the same result from extract_github_repo
\* (exactly (owner, name) when the name has no dot), and the canonical URL
\* https://github.com/{o}/{n} built from a returned (o, n) is mapped to (o, n) again.
C6_FormsNormalizeIdentically ==
    /\ \A f, g \in GithubForms \cap DOMAIN u_res : u_res[f] = u_res[g]
    /\ \A f \in GithubForms \cap DOMAIN u_res :
          "." \notin Chars(u_name) => u_res[f] = Exactly(u_owner, u_name)
    /\ \A f \in DOMAIN u_back : u_back[f] = u_res[f]

\* all six spellings were resolved and fed back, for a name and for an owner
\* that need the ":" separator and the suffix handling
C6_Witness ==
    /\ GithubForms \subseteq DOMAIN u_res
    /\ DOMAIN u_back = GithubForms
    /\ u_res["ssh_git"] = Exactly(u_owner, u_name)
    /\ Len(u_name) > 1

\* C7: for every spelling of github.com/{owner}/{name} or github.com:{owner}/{name}
\* the returned repository name is the name segment with only a trailing ".git"
\* removed (a name containing a dot is returned in full), and an empty URL or
\* one without github.com followed by an owner and a name gives none.
C7_NameReturnedInFull ==
    /\ \A f \in GithubForms \cap DOMAIN u_res : u_res[f] = Exactly(u_owner, u_name)
    /\ \A f \in ForeignForms \cap DOMAIN u_res : ~u_res[f].found

----------------------------------------------------------------------------
(* Properties of analyze_sessions, under SpecAnalyzer                      *)

\* C8: a record read from a session file adds exactly one to the number of
\* counted prompts if it is a user record with user role, not meta, with text
\* content that starts with neither command tag and is longer than 20
\* characters, and adds nothing otherwise; nothing else changes that number.
C8_QualifyingRecordCounted ==
    [][/\ n_lines' = n_lines + 1 =>
            Len(all_prompts') = Len(all_prompts) + (IF cur_class' = "qualifying" THEN 1 ELSE 0)
       /\ n_lines' # n_lines + 1 => all_prompts' = all_prompts]_vars

\* a content of exactly 21 characters was counted after a record that was not
C8_Witness ==
    /\ b_pc = "reading"
    /\ n_lines = 2
    /\ cur_class = "qualifying"
    /\ Len(all_prompts) = 1
    /\ Len(all_prompts[1].text) = MinContentLen + 1

\* C9: in a file that is read without an I/O failure, a line that is not a
\* qualifying record is skipped without affecting the other lines: once the
\* file is left, its session entry holds exactly its qualifying prompts, in
\* line order (and there is no entry when it has none).
C9_LinesJudgedIndependently ==
    b_file \in {"complete", "failed_line"} =>
        IF b_expect = << >>
        THEN Len(sessions_data) = b_mark_s
        ELSE /\ Len(sessions_data) = b_mark_s + 1
             /\ sessions_data[Len(sessions_data)].prompts = b_expect

\* C10: a file whose processing raised (at open, or part-way through reading)
\* has added nothing to the counted prompts and no session entry.
C10_FailedFileContributesNothing ==
    b_file \in {"failed_open", "failed_read", "failed_line"} =>
        /\ Len(all_prompts) = b_mark
        /\ Len(sessions_data) = b_mark_s

\* C11: removing the paths whose processing failed changes nothing of the
\* returned analysis but total_sessions_analyzed: prompts, session entries,
\* project_activity and pattern matches are those of the run without them.
C11_FailedPathsOnlyCounted ==
    b_pc = "done" =>
        /\ summary.total_user_prompts = Len(c_all_prompts)
        /\ all_prompts = c_all_prompts
        /\ sessions_data = c_sessions_data
        /\ summary.sessions_with_user_prompts = Len(c_sessions_data)
        /\ project_activity = Tally(<< >>, c_sessions_data)
        /\ patterns = PatternsFound(c_sessions_data)

\* position of the first file of project p that held a qualifying line
FirstYield(p) == CHOOSE k \in 1..Len(b_yield) :
                    b_yield[k] = p /\ \A j \in 1..(k - 1) : b_yield[j] # p

\* C15: project_activity maps each project to the number of input files under
\* it that held at least one qualifying prompt; a project without such a file
\* has no key; the keys come in first-seen order of the input paths.
C15_ProjectActivityCountsFiles ==
    b_pc = "done" =>
        /\ \A k \in 1..Len(project_activity) :
              /\ project_activity[k].count =
                    Cardinality({i \in 1..Len(b_yield) : b_yield[i] = project_activity[k].project})
              /\ project_activity[k].count > 0
        /\ \A i \in 1..Len(b_yield) :
              \E k \in 1..Len(project_activity) : project_activity[k].project = b_yield[i]
        /\ \A j, k \in 1..Len(project_activity) :
              j < k => /\ project_activity[j].project # project_activity[k].project
                       /\ FirstYield(project_activity[j].project)
                            < FirstYield(project_activity[k].project)

----------------------------------------------------------------------------
(* Properties of pattern detection and of the report, under SpecReport     *)

\* analyze_sessions has returned
Analysed == b_pc \in {"done", "reported", "printed"}

\* the prompts of the session in lower case
Lowered(session) == [k \in 1..Len(session.prompts) |-> Lower(session.prompts[k])]

\* the keyword occurs in one of the lowered prompts
Has(kw, low) == \E k \in 1..Len(low) : Contains(kw, low[k])

\* occurrences of "git" in the prompts of the session
RECURSIVE GitTimes(_)
GitTimes(low) ==
    IF low = << >> THEN 0 ELSE Count(Kw.git, Head(low)) + GitTimes(Tail(low))

\* the table of conditions, pattern by pattern
Table(name, session) ==
    LET low == Lowered(session)
        version == Has(Kw.version, low) \/ Has(Kw.bump, low)
        publish == Has(Kw.publish, low) \/ Has(Kw.release, low) \/ Has(Kw.update, low)
        plugin == Has(Kw.plugin, low) \/ Has(Kw.marketplace, low)
    IN  CASE name = "git_commit_push" ->
                (Has(Kw.commit, low) /\ Has(Kw.push, low)) \/ GitTimes(low) >= 2
          [] name = "version_publish" ->
                (version /\ publish) \/ (plugin /\ (version \/ publish))
          [] name = "documentation_updates" ->
                \/ Has(Kw.readme, low)
                \/ Has(Kw.documentation, low)
                \/ Has(Kw.doc, low) /\ (Has(Kw.update, low) \/ Has(Kw.write, low))
          [] name = "test_fix_cycles" ->
                Has(Kw.test, low)
                /\ (Has(Kw.fix, low) \/ Has(Kw.error, low) \/ Has(Kw.bug, low))
          [] name = "implementation_workflows" ->
                \/ Has(Kw.implement, low)
                \/ Has(Kw.build, low)
                \/ Len(session.prompts) >= 5 /\ (Has(Kw.add, low) \/ Has(Kw.create, low))

\* positions of the sessions the table selects
Selected(name) == {k \in 1..Len(sessions_data) : Table(name, sessions_data[k])}

\* C12: for each pattern, count is the number of matching sessions,
\* examples holds the first min(count, 5) of them in input order, and each
\* example carries the first 5 prompts of its session at most.
C12_CountUncappedExamplesCapped ==
    Analysed =>
        \A name \in DOMAIN patterns :
            LET sel == Selected(name)
                ex == patterns[name].examples
            IN  /\ patterns[name].count = Cardinality(sel)
                /\ Len(ex) = IF Cardinality(sel) < 5 THEN Cardinality(sel) ELSE 5
                /\ \A j \in 1..Len(ex) :
                      \E k \in sel :
                          /\ Cardinality({i \in sel : i <= k}) = j
                          /\ ex[j].session = sessions_data[k].session
                          /\ ex[j].project = sessions_data[k].project
                          /\ Len(ex[j].prompts) <= 5
                          /\ ex[j].prompts = SubSeq(sessions_data[k].prompts, 1, Len(ex[j].prompts))
                          /\ Len(ex[j].prompts) = 5 \/ ex[j].prompts = sessions_data[k].prompts

\* seven sessions, the first not matching and six matching git_commit_push,
\* each with six prompts
C12_Witness ==
    /\ Analysed
    /\ Len(sessions_data) = 7
    /\ ~Table("git_commit_push", sessions_data[1])
    /\ patterns["git_commit_push"].count = 6
    /\ Len(patterns["git_commit_push"].examples) = 5
    /\ patterns["git_commit_push"].examples[1].session = sessions_data[2].session
    /\ Len(sessions_data[2].prompts) = 6

\* C13: each of the five patterns counts exactly the sessions for which its
\* table condition holds, and the five are independent of each other.
C13_ClassifiersFollowTable ==
    Analysed =>
        \A name \in DOMAIN patterns :
            LET chosen == {sessions_data[k].session : k \in Selected(name)}
            IN  /\ patterns[name].count = Cardinality(chosen)
                /\ \A j \in 1..Len(patterns[name].examples) :
                      patterns[name].examples[j].session \in chosen

\* a session of five prompts with "add" fires implementation_workflows and
\* not git_commit_push
C13_Witness ==
    /\ Analysed
    /\ Len(sessions_data) = 1
    /\ sessions_data[1].prompts = SessionShapes.add5
    /\ patterns["implementation_workflows"].count = 1
    /\ patterns["git_commit_push"].count = 0
    /\ patterns["implementation_workflows"].examples[1].session = sessions_data[1].session

\* "commit" and "push" stand in different prompts of the session, never in
\* the same one, and "git" occurs less than twice
JointOnly(session) ==
    LET low == Lowered(session)
    IN  /\ Has(Kw.commit, low) /\ Has(Kw.push, low)
        /\ \A k \in 1..Len(low) : ~(Contains(Kw.commit, low[k]) /\ Contains(Kw.push, low[k]))
        /\ GitTimes(low) < 2

\* C14: keywords in different prompts of one session satisfy a pattern
\* together, a session is entered at most once under a pattern, and no
\* pattern count exceeds sessions_with_user_prompts.
C14_PerSessionMatching ==
    Analysed =>
        /\ \A name \in DOMAIN patterns :
              /\ patterns[name].count <= summary.sessions_with_user_prompts
              /\ \A k \in 1..Len(sessions_data) :
                    Cardinality({j \in 1..Len(patterns[name].examples) :
                        patterns[name].examples[j].session = sessions_data[k].session}) <= 1
        /\ \A k \in 1..Len(sessions_data) :
              (JointOnly(sessions_data[k]) /\ patterns["git_commit_push"].count <= 5) =>
                  Cardinality({j \in 1..Len(patterns["git_commit_push"].examples) :
                      patterns["git_commit_push"].examples[j].session = sessions_data[k].session}) = 1

\* one session, "commit" in its first prompt and "push" in its second,
\* counted once
C14_Witness ==
    /\ Analysed
    /\ Len(sessions_data) = 1
    /\ Len(sessions_data[1].prompts) = 2
    /\ JointOnly(sessions_data[1])
    /\ patterns["git_commit_push"].count = 1

\* C16: the report lists at most 5 projects, each with at least as many
\* sessions as every project left out, and in falling order of sessions.
C16_MostActiveProjectsRanked ==
    report.made =>
        LET listed == report.listed
            shown == {listed[k].project : k \in 1..Len(listed)}
        IN  /\ Len(listed) = IF Len(project_activity) < 5 THEN Len(project_activity) ELSE 5
            /\ Cardinality(shown) = Len(listed)
            /\ \A k \in 1..Len(listed) :
                  \E i \in 1..Len(project_activity) :
                      /\ project_activity[i].project = listed[k].project
                      /\ project_activity[i].count = listed[k].sessions
            /\ \A j, k \in 1..Len(listed) : j < k => listed[j].sessions >= listed[k].sessions
            /\ \A i \in 1..Len(project_activity), k \in 1..Len(listed) :
                  project_activity[i].project \notin shown =>
                      listed[k].sessions >= project_activity[i].count

\* six projects, the most active one given last and listed first
C16_Witness ==
    /\ report.made
    /\ Len(project_activity) = 6
    /\ \A i \in 1..5 : project_activity[6].count > project_activity[i].count
    /\ Len(report.listed) = 5
    /\ report.listed[1].project = project_activity[6].project

\* C17: generate_report never raises and its result starts with the
\* heading; with no input file the three summary counts are 0 and the run
\* goes on to print the report.
C17_RenderingNeverFails ==
    /\ b_pc # "raised"
    /\ report.made =>
          /\ ~report.raised
          /\ report.heading = "# Claude Code Workflow Analysis Report"
    /\ (Analysed /\ n_files = 0) =>
          /\ summary.total_sessions_analyzed = 0
          /\ summary.sessions_with_user_prompts = 0
          /\ summary.total_user_prompts = 0
    /\ b_pc = "printed" => (report.made /\ report_printed)

\* the report of a run without input files has been printed: no example,
\* no project line, every frequency 0
C17_Witness ==
    /\ b_pc = "printed"
    /\ n_files = 0
    /\ report_printed
    /\ report.listed = << >>
    /\ report.version_example.lines = << >>
    /\ report.impl_example.lines = << >>
    /\ \A name \in DOMAIN report.frequency : report.frequency[name] = 0
    /\ report.most_active = <<"u","n","k","n","o","w","n">>

----------------------------------------------------------------------------
(* Further properties of Pipeline A, under Spec                            *)

\* C18: a command line whose ecosystem argument is npm, pypi, cargo or go in
\* any letter case is accepted: the evaluator is built for the lowercased
\* ecosystem and the run does not end with the usage status 2.
C18_EcosystemCaseInsensitive ==
    (entry = "main" /\ LowerEco(args_ecosystem) \in Supported) =>
        /\ ecosystem = LowerEco(args_ecosystem)
        /\ ~(pc = "exited" /\ exit_status = 2)

\* gather_npm_data has been left, by return or by an exception
NpmLeft ==
    /\ ecosystem = "npm"
    /\ pc \notin {"start", "evaluate", "npm_view", "npm_time", "npm_versions"}

\* C19: once gather_npm_data has been left, the three npm commands have been
\* run, in the order metadata, publish times, version list, and the two
\* fields of the publish-time call are in the mapping together or not at all.
C19_NpmCallsAllAttempted ==
    /\ NpmLeft =>
          /\ Len(calls) >= 3
          /\ SubSeq(calls, 1, 3) = <<"npm_view", "npm_time", "npm_versions">>
    /\ ecosystem = "npm" =>
          ("publish_history" \in DOMAIN data <=> "versions_count" \in DOMAIN data)

CoreKeys == {"pushed_at", "open_issues_count", "stargazers_count", "forks_count",
             "watchers_count", "default_branch"}
GhSites == {"gh_repo", "gh_fallback", "gh_community", "gh_contributors", "gh_license"}
AllOrNone(d) == CoreKeys \subseteq DOMAIN d \/ CoreKeys \cap DOMAIN d = {}

\* the gh call for the core fields has returned and is about to be handled
CoreCallReturned == pc = "gh_repo" /\ last.fn = "run_command"

\* one step of gather_github_data around the core fields: after the gh call
\* the REST call comes next exactly when it failed or printed nothing, the
\* REST call is reached from nowhere else, and once reached it is made
CoreStep ==
    /\ CoreCallReturned =>
          (pc' = "gh_fallback" <=> ~(last.success /\ StdoutNonEmpty(last.stdout)))
    /\ (pc' = "gh_fallback" /\ pc # "gh_fallback") => CoreCallReturned
    /\ (pc = "gh_fallback" /\ last.fn = "none") => (calls' = Append(calls, "gh_fallback"))

\* C20: of the calls gather_github_data makes, the gh call for the core
\* fields is the first; the REST call follows it directly, and is made
\* exactly when that gh call failed or printed nothing; the six core fields
\* are in the mapping all together or not at all.
C20_FallbackOnlyOnCliFailure ==
    /\ [](\A i \in 1..Len(calls) :
            /\ (calls[i] \in GhSites) =>
                  (\E j \in 1..i :
                      /\ calls[j] = "gh_repo"
                      /\ \A k \in 1..(j - 1) : calls[k] \notin GhSites)
            /\ (calls[i] = "gh_fallback") => (i > 1 /\ calls[i - 1] = "gh_repo"))
    /\ [](AllOrNone(data) /\ AllOrNone(github_data))
    /\ [][CoreStep]_vars

\* the gh call failed, the REST call was made and gave the six core fields
C20_Witness ==
    /\ pc = "gh_community"
    /\ Len(calls) >= 2
    /\ calls[Len(calls)] = "gh_fallback"
    /\ calls[Len(calls) - 1] = "gh_repo"
    /\ CoreKeys \subseteq DOMAIN data

SuppSites == {"gh_community", "gh_contributors", "gh_license"}
\* the field each supplementary call fills
SuppField(site) ==
    CASE site = "gh_community" -> "community_health"
      [] site = "gh_contributors" -> "contributors_count"
      [] site = "gh_license" -> "license_info"

\* a step made at a supplementary call, the call itself or its handling
SuppStep ==
    pc \in SuppSites =>
        /\ warnings' = warnings
        /\ errors' = errors
        /\ (last.fn = "run_command" /\ ~last.success /\ ~raised') =>
              SuppField(pc) \notin DOMAIN data'

\* C21: no step made at one of the three supplementary GitHub calls adds to
\* warnings or errors, and a call that failed leaves its field out.
C21_SupplementaryCallsSilent == [][SuppStep]_vars

\* evaluate() is past the repository linker, without an exception
PastLinker == pc \in {"security", "footprint", "returned", "printed"} \/ (pc = "exited" /\ printed)
\* the registry's repository_url is a non-empty string with no GitHub owner/name in it
NoRepoIn(url) == url.t = "str" /\ url.s # << >> /\ ~ExtractGithubRepo(url.s).found
\* the warnings that name the URL u as unparsable
ParseWarnings(u) ==
    {k \in 1..Len(warnings) :
        warnings[k].kind = "Could not parse GitHub URL" /\ warnings[k].url = u}

\* C22: once evaluate() is past the repository linker with a repository_url
\* from which no GitHub owner/name can be extracted, github_data is empty,
\* exactly one warning names that URL and no gh or GitHub API call was made.
C22_UnparsedUrlWarned ==
    LET url == Get(registry_data, "repository_url", EmptyStr)
    IN  (PastLinker /\ NoRepoIn(url)) =>
            /\ github_data = EmptyMap
            /\ Cardinality(ParseWarnings(url.s)) = 1
            /\ \A k \in 1..Len(calls) : calls[k] \notin GhSites

RegistrySites == {"npm_view", "npm_time", "npm_versions", "pypi", "cargo", "cargo_versions",
                  "go_list"}
\* the adapter's repository_url is a non-empty string that contains "github.com"
OnGithub(url) == url.t = "str" /\ url.s # << >> /\ Contains(GithubCom, url.s)

\* the step of evaluate() that decides on the repository linker, and the only
\* way into the linker
LinkStep ==
    /\ pc = "link_check" =>
          (pc' = "gh_begin" <=> OnGithub(Get(registry_data, "repository_url", EmptyStr)))
    /\ (pc' = "gh_begin" /\ pc # "gh_begin") => pc = "link_check"
    /\ (pc' \in GhSites /\ pc \notin GhSites) => pc = "gh_begin"

\* C23: for a supported ecosystem the repository linker is entered exactly
\* when the adapter's repository_url is a non-empty string containing
\* "github.com", and after every call of the adapter; when it is not
\* entered, github_data is empty and no gh or GitHub API call is made.
C23_LinkerOnlyForGithubUrl ==
    /\ [][LinkStep]_vars
    /\ [](\A j, k \in 1..Len(calls) :
            (calls[j] \in GhSites /\ calls[k] \in RegistrySites) => k < j)
    /\ []((ecosystem \in Supported /\ pc \in GhSites \cup {"gh_begin"}) =>
            OnGithub(Get(registry_data, "repository_url", EmptyStr)))
    /\ []((PastLinker /\ ~OnGithub(Get(registry_data, "repository_url", EmptyStr))) =>
            /\ github_data = EmptyMap
            /\ \A k \in 1..Len(calls) : calls[k] \notin GhSites)

\* the linker has been entered for a pypi package with a GitHub source URL
C23_Witness ==
    /\ pc = "gh_begin"
    /\ ecosystem = "pypi"
    /\ calls = <<"pypi">>
    /\ OnGithub(registry_data["repository_url"])

\* the primary call of the pypi, cargo or go adapter has returned a failure
PrimaryFailed ==
    /\ pc \in {"pypi", "cargo", "go_list"}
    /\ \/ last.fn = "fetch_url" /\ last.oc # "ok"
       \/ last.fn = "run_command" /\ ~last.success

\* C24: when the primary call of an adapter has failed, in whatever way,
\* errors is as it was before the call (empty), and the adapter returns the
\* empty mapping.
C24_PrimaryFailureNotAnError ==
    /\ [](PrimaryFailed => errors = << >>)
    /\ [][PrimaryFailed => (registry_data' = EmptyMap /\ pc' = "link_check")]_vars

HardKinds == {"Resource not found", "Unsupported ecosystem"}
IsPrefix(a, b) == Len(a) <= Len(b) /\ SubSeq(b, 1, Len(a)) = a
\* one of the two hard-error causes occurred in this run: an HTTP 404 or an
\* ecosystem name that is not recognized
HardCause ==
    \/ errors # << >>
    \/ entry = "main" /\ LowerEco(args_ecosystem) \notin Supported

\* C25: every entry of errors comes from an HTTP 404 or an unrecognized
\* ecosystem, no entry of warnings does, both lists only grow, and a run of
\* the command line ends with a non-zero status exactly when one of the two
\* causes occurred.
C25_ErrorsOnlyFromHardCauses ==
    /\ [](\A k \in 1..Len(errors) : errors[k].kind \in HardKinds)
    /\ [](\A k \in 1..Len(warnings) : warnings[k].kind \notin HardKinds)
    /\ [][IsPrefix(errors, errors') /\ IsPrefix(warnings, warnings')]_vars
    /\ []((entry = "main" /\ pc = "exited") => (exit_status # 0 <=> HardCause))

\* no call site occurs twice among the calls made so far
NoRetry == \A j, k \in 1..Len(calls) : j # k => calls[j] # calls[k]
\* an evaluation that was started has stopped
Stopped == pc = "raised" \/ pc = "returned" \/ (pc = "exited" /\ exit_status # 2)
\* the result mapping was assembled and given back by evaluate()
Assembled == ~raised /\ (entry = "main" => printed)

\* C26: no external call is made twice, a failed call is followed by a later
\* stage, at most 8 calls are made, and an evaluation that has stopped has
\* assembled its result.
C26_NoRetryAndResultAssembled ==
    /\ [](NoRetry /\ Len(calls) <= 8)
    /\ [][(last.fn # "none" /\ last'.fn = "none") => pc' # pc]_vars
    /\ []((Stopped /\ pc # "returned") => Assembled)

StubKinds == {"npm audit requires package.json context", "npm ls requires package installation"}
\* evaluate() has returned its result for a supported ecosystem
ResultReady ==
    /\ ecosystem \in Supported
    /\ pc \in {"returned", "printed"} \/ (pc = "exited" /\ printed)

\* C27: in every result of a supported ecosystem security_data is empty and
\* dependency_footprint is {direct_dependencies: 0, total_dependencies: 0,
\* tree_depth: 1}; for npm the last two warnings are the "npm audit" and the
\* "npm ls" one, in this order, and no other warning is of these kinds; for
\* the other ecosystems the stubs leave warnings as they were.
C27_StubsReturnPlaceholders ==
    /\ [](ResultReady =>
            /\ security_data = EmptyMap
            /\ dependency_footprint =
                  [direct_dependencies |-> 0, total_dependencies |-> 0, tree_depth |-> 1]
            /\ LET n == Len(warnings)
                   stubs == {k \in 1..n : warnings[k].kind \in StubKinds}
               IN  IF ecosystem = "npm"
                   THEN /\ n >= 2
                        /\ warnings[n - 1].kind = "npm audit requires package.json context"
                        /\ warnings[n].kind = "npm ls requires package installation"
                        /\ stubs = {n - 1, n}
                   ELSE stubs = {})
    /\ [][(pc \in {"security", "footprint"} /\ ecosystem # "npm") => warnings' = warnings]_vars

\* an npm result whose warnings hold an earlier warning and then the two of
\* the stubs
C27_Witness ==
    /\ ResultReady
    /\ ecosystem = "npm"
    /\ Len(warnings) = 3
    /\ warnings[1].kind \notin StubKinds
    /\ warnings[3].kind = "npm ls requires package installation"
    /\ github_data # EmptyMap

\* C28: in an evaluation for go the repository linker is never entered, no
\* gh or GitHub API call is made, the adapter's mapping has no
\* repository_url and github_data is empty, whatever `go list` answered.
C28_GoNeverLinked ==
    ecosystem = "go" =>
        /\ github_data = EmptyMap
        /\ pc \notin GhSites \cup {"gh_begin"}
        /\ "repository_url" \notin DOMAIN registry_data \cup DOMAIN data
        /\ \A k \in 1..Len(calls) : calls[k] = "go_list"

\* a go result whose module path is a github.com path
C28_Witness ==
    /\ ecosystem = "go"
    /\ pc = "returned"
    /\ "module_path" \in DOMAIN registry_data
    /\ registry_data["module_path"].t = "str"
    /\ Contains(GithubCom, registry_data["module_path"].s)
    /\ github_data = EmptyMap

\* the warnings gather_github_data appends when the gh output does not parse
GhParseWarnings == {k \in 1..Len(warnings) : warnings[k].kind = "Failed to parse gh api output"}
\* the calls made after the gh call for the core fields
AfterCore ==
    LET at == CHOOSE k \in 1..Len(calls) : calls[k] = "gh_repo"
    IN  SubSeq(calls, at + 1, Len(calls))

\* C30: once the gh call for the core fields has printed text that does not
\* parse, there is exactly one "Failed to parse gh api output" warning, the
\* REST call is never made and no core field is ever set; and when
\* gather_github_data has been left, the three supplementary calls have been
\* made after it, in order, and github_data holds the canonical repository_url.
C30_CoreParseFailure ==
    GhParseWarnings # {} =>
        /\ Cardinality(GhParseWarnings) = 1
        /\ \A k \in 1..Len(calls) : calls[k] # "gh_fallback"
        /\ CoreKeys \cap (DOMAIN data \cup DOMAIN github_data) = {}
        /\ pc \notin GhSites =>
              /\ AfterCore = <<"gh_community", "gh_contributors", "gh_license">>
              /\ "repository_url" \in DOMAIN github_data
              /\ github_data["repository_url"] = Str(CanonicalUrl(gh_repo))

----------------------------------------------------------------------------
(* Further properties of Pipeline B, under SpecAnalyzer                    *)

\* the prompts of the recorded sessions, counted
RECURSIVE PromptsRecorded(_)
PromptsRecorded(sessions) ==
    IF sessions = << >> THEN 0
    ELSE Len(Head(sessions).prompts) + PromptsRecorded(Tail(sessions))

\* C29: in the returned summary total_user_prompts is the number of prompts
\* of the recorded sessions, the values of project_activity add up to
\* sessions_with_user_prompts, and sessions_with_user_prompts is at most
\* total_sessions_analyzed and at most total_user_prompts.
C29_SummaryConsistent ==
    b_pc = "done" =>
        /\ summary.total_user_prompts = PromptsRecorded(sessions_data)
        /\ TotalSessions(project_activity) = summary.sessions_with_user_prompts
        /\ summary.sessions_with_user_prompts <= summary.total_sessions_analyzed
        /\ summary.sessions_with_user_prompts <= summary.total_user_prompts

====
